---- MODULE Spec2Model ----
(***************************************************************************)
(* cmdrouter: an interactive menu router.  A CmdRouter owns a list of      *)
(* Options and a list of global Middlewares; Run loops over                *)
(* getOptionNumber (render the menu, scan a selection) and dispatches the  *)
(* selected Option through the composed chain                              *)
(*      global middlewares -> Option.Run -> local middlewares -> Handler.  *)
(* Group registers a nested CmdRouter as an Option of its parent.          *)
(*                                                                         *)
(* The program is modelled in two phases: "setup", in which main builds    *)
(* the routers, and "run", the call root.Run(ctx), executed on an explicit *)
(* call stack.  The input stream is a source of lines without end in Spec, *)
(* and holds a number of lines that is kept in StreamSpec; handlers and    *)
(* middlewares return in both, and may panic in PanicSpec.  PrinterSpec    *)
(* applies DefaultPrinter.PrintTable to tables.  DispatchSpec records the  *)
(* options a run dispatches, and TreeSpec builds groups of groups.         *)
(***************************************************************************)
EXTENDS Integers, Sequences, FiniteSets, TLC

\* ------------------------------------------------------------------ bounds
MaxRouters == 2    \* routers built in setup (the root and its groups)
MaxSetup   == 3    \* what the setup gives to all routers together: options,
                   \* global middlewares, printers, streams and path
                   \* display other than the defaults, middlewares added
                   \* to an Option behind its registration, and the
                   \* slice of the caller that routers share
SharedCap  == 1    \* capacity of the slice of Options of the caller that
                   \* routers are built from
MaxLines   == 2    \* lines one scanner obtains from the input stream
MaxSettings == 2   \* settings passed in one call of Setup or of
                   \* NewCmdRouterWithSettings
MaxInput   == 3    \* lines of an input stream whose length is kept
MaxTable   == 4    \* headers and cells of a table given to DefaultPrinter
MaxTree    == 4    \* routers built as groups of groups

\* --------------------------------------------------------------- constants
exitNumber == 0

Titles == <<"Main", "Dev", "Logs", "Sys", "Aux", "Misc">>

Printers == {"DefaultPrinter", "dummyPrinter"}

\* the pairs of streams a router may be given: in and out
Streams == {<<"os.Stdin", "os.Stdout">>, <<"reader", "buffer">>}

\* --------------------------------------------------- handlers, middlewares
\* The functions the caller supplies are told apart by where they were
\* registered: kind "g", the j-th global middleware of router r; kind "l",
\* the j-th local middleware of the option built as k-th option of router r;
\* kind "h", the handler of that option.
Fn(kind, r, k, j) == [kind |-> kind, r |-> r, k |-> k, j |-> j]

NoFn == Fn("", 0, 0, 0)

\* DefaultLoggerMiddleware and DefaultRecoverMiddleware, the middlewares the
\* package supplies
DefaultLoggerMiddleware == Fn("logger", 0, 0, 0)

DefaultRecoverMiddleware == Fn("recover", 0, 0, 0)

\* A callable: what a Handler value is bound to.
\*   "fn"     the user handler f
\*   "group"  the closure Group generates around the router r
\*   "optrun" the method value c.options[k].Run of router r
\*   "mw"     the closure the middleware f returned; the Handler it wraps is
\*            the rest of the sequence the layer stands in
Layer(t, f, r, k) == [t |-> t, f |-> f, r |-> r, k |-> k]

\* Option.AddMiddlewares: o.middlewares = append(o.middlewares, m...)
OptionAddMiddlewares(o, m) == [o EXCEPT !.middlewares = @ \o m]

OptionNames == <<"A", "B", "C", "D", "E", "F", "G", "H">>

\* The Option value the caller builds to register it as k-th option of
\* router r: at odd k the caller has added two local middlewares to it.
NewOption(r, k) ==
  LET o == [Name        |-> OptionNames[k],
            Handler     |-> Layer("fn", Fn("h", r, k, 0), 0, 0),
            middlewares |-> <<>>]
  IN IF k % 2 = 1
     THEN OptionAddMiddlewares(o, <<Fn("l", r, k, 1), Fn("l", r, k, 2)>>)
     ELSE o

VARIABLES
  phase,     \* "setup": main is building routers; "run": inside root.Run;
             \* "done": root.Run has returned; "crashed": a panic
             \* has ended the program
  routers,   \* the CmdRouter objects, by id; 1 is the root
  held,      \* the Option variables of the caller that have changed since
             \* they were registered: the router r and the place k of the
             \* copy, and the value o of the variable
  main,      \* the run of the program: call stack and input stream
  input,     \* the input stream, where its length is kept: the lines
             \* left in it, and those that were read from it but never
             \* scanned
  printed    \* a call of DefaultPrinter.PrintTable: the headers and the
             \* rows, and the lines written to out

vars == <<phase, routers, held, main, input, printed>>

\* -------------------------------------------------------------- the router
\* constructPath as its comment describes it: "/" + name
constructPathSlashed(name) == <<"/", name>>

\* constructPath: "> " + name + " "
constructPath(name) == <<"> ", name, " ">>

\* A slice of Options as a caller passes it with options...: its items and
\* its backing array, "shared" for the slice the caller has made with
\* make([]Option, 0, SharedCap) and passes to more than one router, "own" for
\* an array no other slice is backed by.
Slice(items, arr) == [items |-> items, arr |-> arr]

\* NewCmdRouter(name, options...); options and optionsArr are the items and
\* the backing array of the field options
NewCmdRouter(name, options) ==
  [name         |-> name,
   options      |-> options.items,
   optionsArr   |-> options.arr,
   middlewares  |-> <<>>,
   tablePrinter |-> "DefaultPrinter",
   isGroup      |-> FALSE,
   path         |-> constructPath(name),
   pathShow     |-> FALSE,
   in           |-> "os.Stdin",
   out          |-> "os.Stdout"]

\* NewGroup without the mark of a group
NewGroupUnmarked(c, name, options) ==
  [name         |-> name,
   options      |-> options.items,
   optionsArr   |-> options.arr,
   middlewares  |-> <<>>,
   tablePrinter |-> c.tablePrinter,
   isGroup      |-> FALSE,
   path         |-> c.path \o constructPath(name),
   pathShow     |-> c.pathShow,
   in           |-> c.in,
   out          |-> c.out]

\* the router value Group builds from its parent c
NewGroup(c, name, options) ==
  [name         |-> name,
   options      |-> options.items,
   optionsArr   |-> options.arr,
   middlewares  |-> <<>>,
   tablePrinter |-> c.tablePrinter,
   isGroup      |-> TRUE,
   path         |-> c.path \o constructPath(name),
   pathShow     |-> c.pathShow,
   in           |-> c.in,
   out          |-> c.out]

\* the Option Group registers on the parent: its Handler runs the group g
GroupOption(name, g) ==
  [Name |-> name, Handler |-> Layer("group", NoFn, g, 0),
   middlewares |-> <<>>]

\* append(c.options, options...) writes into the backing array of c.options
\* when its capacity allows, and into a new array otherwise
AppendsInPlace(c, options) ==
  /\ c.optionsArr = "shared"
  /\ Len(c.options) + Len(options) <= SharedCap

\* c.options = append(c.options, options...)
WithOptionsAdded(c, options) ==
  [c EXCEPT !.options = @ \o options,
            !.optionsArr = IF AppendsInPlace(c, options) THEN @ ELSE "own"]

\* the router d when `options` have been written into the array "shared"
\* behind the first `at` places: its options in these places are the new
\* ones
WithArrayWritten(d, at, options) ==
  IF d.optionsArr = "shared"
  THEN [d EXCEPT !.options =
          [i \in 1..Len(@) |->
             IF i > at /\ i <= at + Len(options) THEN options[i - at]
             ELSE @[i]]]
  ELSE d

\* AddOptions on router c of the routers rs
OptionsAdded(rs, c, options) ==
  [d \in 1..Len(rs) |->
     IF d = c THEN WithOptionsAdded(rs[c], options)
     ELSE IF AppendsInPlace(rs[c], options)
          THEN WithArrayWritten(rs[d], Len(rs[c].options), options)
          ELSE rs[d]]

\* c.middlewares = append(c.middlewares, m...)
WithMiddlewaresAdded(c, m) == [c EXCEPT !.middlewares = @ \o m]

\* c.tablePrinter = printer
WithPrinterSet(c, printer) == [c EXCEPT !.tablePrinter = printer]

\* c.pathShow = enable
WithPathShow(c, enable) == [c EXCEPT !.pathShow = enable]

\* c.in = in; c.out = out
WithInputOutputSet(c, in, out) == [c EXCEPT !.in = in, !.out = out]

\* ------------------------------------------------------------------- a run
\* A frame of the call stack.  fn is the function the frame belongs to:
\* "Run" (CmdRouter.Run of router r), "mw" (the closure of middleware f,
\* wrapping next), "handler" (the user handler f), "optrun" (Option.Run of
\* option k of router r), "group" (the closure Group generated for r).
\* In a Run frame, menu holds what the last getOptionNumber wrote and log
\* what the dispatch of the current cycle of the loop did.
Frame(fn, r, k, f, next, pc) ==
  [fn |-> fn, r |-> r, k |-> k, f |-> f, next |-> next, pc |-> pc,
   sel |-> 0, res |-> "nil", menu |-> <<>>, log |-> <<>>]

\* the state of a run before root.Run is called
NoRun == [stack |-> <<>>, ended |-> {}]

\* an input stream of `left` lines none of which has been read; eofAt is
\* the number of Runs on the stack when its end was first met, and
\* dispatched the options dispatched so far, where they are recorded
Stream(left) == [left |-> left, lost |-> 0, eofAt |-> 0, dispatched |-> <<>>]

\* the input stream where its length is not kept
NoInput == Stream(0)

\* a call PrintTable(out, headers, rows) of DefaultPrinter before it is
\* made, and no call
Table(headers, rows) ==
  [headers |-> headers, rows |-> rows, lines |-> <<>>, panicked |-> FALSE,
   state |-> "called"]

NoTable == [Table(<<>>, <<>>) EXCEPT !.state = "none"]

\* what a Run frame logs: calls into middlewares and handlers ...
CallEv(e, f) ==
  [e |-> e, f |-> f, p |-> "", dst |-> "", txt |-> <<>>,
   hdr |-> <<>>, rows |-> <<>>]

\* ... text written to the stream dst ...
WriteEv(dst, txt) ==
  [e |-> "write", f |-> NoFn, p |-> "", dst |-> dst, txt |-> txt,
   hdr |-> <<>>, rows |-> <<>>]

\* ... and the calls printer.PrintTable(out, headers, rows)
TableEv(p, dst, hdr, rows) ==
  [e |-> "table", f |-> NoFn, p |-> p, dst |-> dst, txt |-> <<>>,
   hdr |-> hdr, rows |-> rows]

\* fmt.Fprintln(out): an empty line
Blank(dst) == WriteEv(dst, <<"\n">>)

\* ------------------------------------------------------- reading selections
\* An input line is a sequence of characters.
DigitChars == <<"0", "1", "2", "3", "4", "5", "6", "7", "8", "9">>

IsDigit(ch) == \E i \in 1..10 : DigitChars[i] = ch

\* DigitVal counting the digits from 1
DigitValFromOne(ch) == CHOOSE i \in 1..10 : DigitChars[i] = ch

DigitVal(ch) == (CHOOSE i \in 1..10 : DigitChars[i] = ch) - 1

IsSpace(ch) == ch \in {" ", "\t"}

RECURSIVE TrimLeft(_)
TrimLeft(s) ==
  IF s # <<>> /\ IsSpace(Head(s)) THEN TrimLeft(Tail(s)) ELSE s

RECURSIVE TrimRight(_)
TrimRight(s) ==
  IF s # <<>> /\ IsSpace(s[Len(s)])
  THEN TrimRight(SubSeq(s, 1, Len(s) - 1))
  ELSE s

\* strings.TrimSpace
TrimSpace(s) == TrimRight(TrimLeft(s))

RECURSIVE DigitsValue(_, _)
DigitsValue(s, acc) ==
  IF s = <<>> THEN acc
  ELSE DigitsValue(Tail(s), 10 * acc + DigitVal(Head(s)))

\* strconv.Atoi: an optional sign, then one or more decimal digits
Atoi(s) ==
  LET signed == s # <<>> /\ Head(s) \in {"+", "-"}
      digits == IF signed THEN Tail(s) ELSE s
      ok     == digits # <<>> /\ \A i \in 1..Len(digits) : IsDigit(digits[i])
      abs    == IF ok THEN DigitsValue(digits, 0) ELSE 0
  IN [err |-> ~ok,
      v   |-> IF signed /\ Head(s) = "-" THEN 0 - abs ELSE abs]

\* the lines an input stream holds in the runs
InputLines == { <<"0">>, <<"1">>, <<" ", "2", " ">>, <<"x">>, <<"+", "1">> }

\* the lines getOptionNumber is applied to
Tokens == InputLines \cup { <<"-", "1">>, <<>>, <<"1", "x">> }

\* Parsed without strings.TrimSpace
ParsedUntrimmed == [l \in Tokens |-> Atoi(l)]

\* input := strings.TrimSpace(scanner.Text()); option, err := Atoi(input),
\* for each of the lines
Parsed == [l \in Tokens |-> Atoi(TrimSpace(l))]

\* showPath: print the path when path display is on
showPath(c) ==
  IF c.pathShow THEN <<WriteEv("os.Stdout", c.path \o <<"\n">>)>> ELSE <<>>

\* showMenu drawing with DefaultPrinter whatever printer the router has
showMenuDefaultPrinter(c) ==
  LET headers == <<"#", c.name>>
      rows    == [i \in 1..Len(c.options) |-> <<i, c.options[i].Name>>]
      last    == IF c.isGroup THEN <<0, "<-Back">> ELSE <<0, "Exit">>
  IN <<TableEv("DefaultPrinter", c.out, headers, Append(rows, last)),
       Blank("os.Stdout")>>

\* showMenu: one row per option, then the exit row, through the printer
showMenu(c) ==
  LET headers == <<"#", c.name>>
      rows    == [i \in 1..Len(c.options) |-> <<i, c.options[i].Name>>]
      last    == IF c.isGroup THEN <<0, "<-Back">> ELSE <<0, "Exit">>
  IN <<TableEv(c.tablePrinter, c.out, headers, Append(rows, last)),
       Blank("os.Stdout")>>

\* scanLoop with the error of Atoi ignored
RECURSIVE scanLoopIgnoresErr(_, _, _, _)
scanLoopIgnoresErr(c, lines, scanned, out) ==
  LET prompted == Append(out, WriteEv(c.out, <<"Enter option number: ">>))
  IN IF lines = <<>>
     THEN [option |-> 0, out |-> prompted, scanned |-> scanned, eof |-> TRUE]
     ELSE LET a == Parsed[Head(lines)]
          IN IF a.v >= 0 /\ a.v <= Len(c.options)
             THEN [option |-> a.v, out |-> prompted,
                   scanned |-> scanned + 1, eof |-> FALSE]
             ELSE scanLoopIgnoresErr(c, Tail(lines), scanned + 1,
                    Append(prompted,
                      WriteEv(c.out, <<"Invalid number. Try again.", "\n">>)))

\* the scanning loop of getOptionNumber over the lines the scanner obtains
\* before the stream ends: for each Scan a prompt; a line that parses to a
\* number in 0..len(options) is returned, any other line is answered with a
\* diagnostic; when Scan fails at end of stream the loop is left with 0
RECURSIVE scanLoop(_, _, _, _)
scanLoop(c, lines, scanned, out) ==
  LET prompted == Append(out, WriteEv(c.out, <<"Enter option number: ">>))
  IN IF lines = <<>>
     THEN [option |-> 0, out |-> prompted, scanned |-> scanned, eof |-> TRUE]
     ELSE LET a == Parsed[Head(lines)]
          IN IF ~a.err /\ a.v >= 0 /\ a.v <= Len(c.options)
             THEN [option |-> a.v, out |-> prompted,
                   scanned |-> scanned + 1, eof |-> FALSE]
             ELSE scanLoop(c, Tail(lines), scanned + 1,
                    Append(prompted,
                      WriteEv(c.out, <<"Invalid number. Try again.", "\n">>)))

\* getOptionNumber giving the last option when the stream ends
getOptionNumberLastAtEof(c, lines) ==
  LET got == scanLoop(c, lines, 0, showPath(c) \o showMenu(c))
  IN IF got.eof THEN [got EXCEPT !.option = Len(c.options)] ELSE got

\* getOptionNumber on a router c whose fresh scanner obtains `lines`
getOptionNumber(c, lines) == scanLoop(c, lines, 0, showPath(c) \o showMenu(c))

\* ------------------------------------------------------------ composition
\* Wrap with the loop running forward: the last middleware ends up outermost
RECURSIVE WrapForward(_, _, _)
WrapForward(ms, i, handler) ==
  IF i = 0 THEN handler
  ELSE WrapForward(ms, i - 1,
                   <<Layer("mw", ms[Len(ms) - i + 1], 0, 0)>> \o handler)

\* for i := len(ms) - 1; i >= 0; i-- { handler = ms[i](handler) }
\* with i counting the middlewares still to apply
RECURSIVE Wrap(_, _, _)
Wrap(ms, i, handler) ==
  IF i = 0 THEN handler
  ELSE Wrap(ms, i - 1, <<Layer("mw", ms[i], 0, 0)>> \o handler)

\* Option.Run: the Handler wrapped in the option's middlewares
OptionRun(o) == Wrap(o.middlewares, Len(o.middlewares), <<o.Handler>>)

\* RunHandler taking the option before the selected one
RunHandlerOffByOne(c, r, optionNumber) ==
  Wrap(c.middlewares, Len(c.middlewares),
       <<Layer("optrun", NoFn, r,
               IF optionNumber > 1 THEN optionNumber - 1 ELSE Len(c.options))>>)

\* Run: the method value c.options[optionNumber-1].Run of router r wrapped in
\* the router's middlewares
RunHandler(c, r, optionNumber) ==
  Wrap(c.middlewares, Len(c.middlewares),
       <<Layer("optrun", NoFn, r, optionNumber)>>)

\* -------------------------------------------------------------- call stack
Top(w) == w.stack[Len(w.stack)]

SetTop(w, f) == [w EXCEPT !.stack[Len(w.stack)] = f]

Push(w, f) == [w EXCEPT !.stack = Append(@, f)]

\* the innermost Run on the stack
RunIdx(stack) ==
  CHOOSE i \in 1..Len(stack) :
    /\ stack[i].fn = "Run"
    /\ \A j \in (i + 1)..Len(stack) : stack[j].fn # "Run"

\* the innermost Run logs evs
Logged(w, evs) == [w EXCEPT !.stack[RunIdx(w.stack)].log = @ \o evs]

\* Invoke with Option.Run wrapping the Handler in the middlewares of the
\* first option of the router
RECURSIVE InvokeFirstLocals(_, _, _)
InvokeFirstLocals(rt, w, handler) ==
  LET l    == Head(handler)
      next == Tail(handler)
  IN CASE l.t = "mw" ->
            Push(w, Frame("mw", 0, 0, l.f, next, "pre"))
       [] l.t = "fn" ->
            Push(w, Frame("handler", 0, 0, l.f, <<>>, "body"))
       [] l.t = "optrun" ->
            InvokeFirstLocals(
              rt, Push(w, Frame("optrun", l.r, l.k, NoFn, <<>>, "wait")),
              OptionRun([rt[l.r].options[l.k] EXCEPT
                           !.middlewares = rt[l.r].options[1].middlewares]))
       [] l.t = "group" ->
            Push(Push(Logged(w, <<CallEv("handler", Fn("group", l.r, 0, 0))>>),
                      Frame("group", l.r, 0, NoFn, <<>>, "wait")),
                 Frame("Run", l.r, 0, NoFn, <<>>, "prompt"))

\* calling handler(ctx): control runs to the first point where the callee
\* reads input or takes a decision of its own.  Option.Run composes and calls
\* on; the closure of a group calls group.Run.
RECURSIVE Invoke(_, _, _)
Invoke(rt, w, handler) ==
  LET l    == Head(handler)
      next == Tail(handler)
  IN CASE l.t = "mw" ->
            Push(w, Frame("mw", 0, 0, l.f, next, "pre"))
       [] l.t = "fn" ->
            Push(w, Frame("handler", 0, 0, l.f, <<>>, "body"))
       [] l.t = "optrun" ->
            Invoke(rt, Push(w, Frame("optrun", l.r, l.k, NoFn, <<>>, "wait")),
                   OptionRun(rt[l.r].options[l.k]))
       [] l.t = "group" ->
            Push(Push(Logged(w, <<CallEv("handler", Fn("group", l.r, 0, 0))>>),
                      Frame("group", l.r, 0, NoFn, <<>>, "wait")),
                 Frame("Run", l.r, 0, NoFn, <<>>, "prompt"))

\* the closure of a group failing whenever its Run has returned
groupHandlerFailing(res) == "err"

\* the closure Group generates, after group.Run(ctx) has returned (Run has
\* no result; res is what the model hands on from it): return nil
groupHandler(res) == "nil"

\* Return with Option.Run dropping what its handler returned
RECURSIVE ReturnDropsErr(_, _)
ReturnDropsErr(w, res) ==
  LET popped == [w EXCEPT !.stack = SubSeq(@, 1, Len(@) - 1)]
  IN IF popped.stack = <<>> THEN popped
     ELSE LET caller == Top(popped)
          IN CASE caller.fn = "optrun" -> ReturnDropsErr(popped, "nil")
               [] caller.fn = "group"  -> ReturnDropsErr(popped, "nil")
               [] OTHER ->
                    SetTop(popped, [caller EXCEPT !.pc = "returned",
                                                  !.res = res])

\* the function on top of the stack returns res: Option.Run hands the result
\* of its handler on, the closure of a group returns nil, a middleware or a
\* Run that was waiting for the call resumes with res
RECURSIVE Return(_, _)
Return(w, res) ==
  LET popped == [w EXCEPT !.stack = SubSeq(@, 1, Len(@) - 1)]
  IN IF popped.stack = <<>> THEN popped
     ELSE LET caller == Top(popped)
          IN CASE caller.fn = "optrun" -> Return(popped, res)
               [] caller.fn = "group"  -> Return(popped, groupHandler(res))
               [] OTHER ->
                    SetTop(popped, [caller EXCEPT !.pc = "returned",
                                                  !.res = res])

\* ----------------------------------------------------- the steps of a run
AtRun(w, pc) ==
  /\ w.stack # <<>>
  /\ Top(w).fn = "Run"
  /\ Top(w).pc = pc

AtFn(w, fn, pc) ==
  /\ w.stack # <<>>
  /\ Top(w).fn = fn
  /\ Top(w).pc = pc

\* the lines router c accepts as a selection, and those it does not
Accepted(c) == {l \in InputLines : ~getOptionNumber(c, <<l>>).eof}

Refused(c) == InputLines \ Accepted(c)

\* the sequences of at most n lines of the set ls
RECURSIVE SeqsUpTo(_, _)
SeqsUpTo(ls, n) ==
  IF n = 0 THEN {<<>>}
  ELSE LET shorter == SeqsUpTo(ls, n - 1)
       IN shorter \cup
          {Append(s, l) : s \in {x \in shorter : Len(x) = n - 1}, l \in ls}

\* what the scanner of one getOptionNumber of router c may scan: lines c
\* refuses, up to the first line it accepts (the scanner is dropped with
\* that line) or up to the end of the stream
Scannable(c) ==
  LET refused == SeqsUpTo(Refused(c), MaxLines)
  IN refused \cup
     {Append(s, l) : s \in {x \in refused : Len(x) < MaxLines},
                     l \in Accepted(c)}

\* the reader of router c has reached its end in the run w
EofOf(c, w) == c.in \in w.ended

\* the reader of the router whose Run is on top has reached its end
Eof(rt, w) == EofOf(rt[Top(w).r], w)

\* getOptionNumber of router c is about to be called and its scanner can
\* scan `lines`; nothing comes after the end of the stream
CanReadBy(c, w, lines) ==
  /\ AtRun(w, "prompt")
  /\ Len(lines) <= MaxLines
  /\ getOptionNumber(c, lines).scanned = Len(lines)
  /\ EofOf(c, w) => lines = <<>>

\* optionNumber := c.getOptionNumber(), the scanner scanning `lines`
PromptedBy(c, w, lines) ==
  LET got == getOptionNumber(c, lines)
  IN [SetTop(w, [Top(w) EXCEPT !.pc = "selected", !.sel = got.option,
                               !.menu = got.out, !.log = <<>>])
        EXCEPT !.ended = IF got.eof THEN @ \cup {c.in} ELSE @]

\* the same of the router whose Run is on top
CanRead(rt, w, lines) == CanReadBy(rt[Top(w).r], w, lines)

Prompted(rt, w, lines) == PromptedBy(rt[Top(w).r], w, lines)

\* if optionNumber == exitNumber { break }: Run returns
CanExit(w) == AtRun(w, "selected") /\ Top(w).sel = exitNumber

\* Exited with continue in the place of break
ExitedContinue(w) == SetTop(w, [Top(w) EXCEPT !.pc = "prompt"])

Exited(w) == Return(w, "nil")

\* compose the handler, write an empty line, call handler(ctx)
CanDispatch(w) == AtRun(w, "selected") /\ Top(w).sel # exitNumber

\* Dispatched without the empty line before the call
DispatchedAtOnce(rt, w) ==
  LET f == Top(w)
      c == rt[f.r]
  IN Invoke(rt, SetTop(w, [f EXCEPT !.pc = "chain", !.menu = <<>>]),
            RunHandler(c, f.r, f.sel))

Dispatched(rt, w) ==
  LET f == Top(w)
      c == rt[f.r]
  IN Invoke(rt,
            Logged(SetTop(w, [f EXCEPT !.pc = "chain", !.menu = <<>>]),
                   <<Blank(c.out)>>),
            RunHandler(c, f.r, f.sel))

\* the handler has returned: its result is dropped, an empty line is written
\* and the loop starts over
CanLoop(w) == AtRun(w, "returned")

\* Looped reporting the error of the chain with slog.Error
LoopedLogging(rt, w) ==
  LET report ==
        IF Top(w).res = "nil" THEN <<>>
        ELSE <<WriteEv("slog.Error", <<"handler", Top(w).res>>)>>
  IN Logged(SetTop(w, [Top(w) EXCEPT !.pc = "prompt", !.res = "nil"]),
            report \o <<Blank(rt[Top(w).r].out)>>)

Looped(rt, w) ==
  Logged(SetTop(w, [Top(w) EXCEPT !.pc = "prompt", !.res = "nil"]),
         <<Blank(rt[Top(w).r].out)>>)

\* a middleware closure is entered: a middleware of the caller either calls
\* next or returns an error of its own without calling next;
\* DefaultLoggerMiddleware and DefaultRecoverMiddleware call next
CanEnter(w, callsNext) ==
  /\ AtFn(w, "mw", "pre")
  /\ Top(w).f \in {DefaultLoggerMiddleware, DefaultRecoverMiddleware}
       => callsNext

Entered(rt, w, callsNext) ==
  LET f == Top(w)
      pre == <<CallEv("pre", f.f)>>
  IN IF callsNext
     THEN Invoke(rt, Logged(SetTop(w, [f EXCEPT !.pc = "wait"]), pre), f.next)
     ELSE Return(Logged(w, pre \o <<CallEv("short", f.f)>>), "err")

\* next has returned to a middleware closure: it returns what next returned;
\* DefaultLoggerMiddleware first reports an error with slog.Error
CanLeave(w) == AtFn(w, "mw", "returned")

Left(w) ==
  LET f == Top(w)
      report ==
        IF f.f = DefaultLoggerMiddleware /\ f.res # "nil"
        THEN <<WriteEv("slog.Error", <<"handler", f.res>>)>>
        ELSE <<>>
  IN Return(Logged(w, report \o <<CallEv("post", f.f)>>), f.res)

\* a user handler runs and returns nil or an error
CanHandle(w) == AtFn(w, "handler", "body")

Handled(w, res) == Return(Logged(w, <<CallEv("handler", Top(w).f)>>), res)

\* ---------------------------------------------------------------- settings
\* A Setting: the closure a With... function returns, as the call it makes
\* on the router and the arguments it holds
NoSetting ==
  [t |-> "", printer |-> "", enable |-> FALSE, middlewares |-> <<>>,
   options |-> <<>>, in |-> "", out |-> ""]

WithTablePrinter(printer) ==
  [NoSetting EXCEPT !.t = "WithTablePrinter", !.printer = printer]

WithPath(enable) == [NoSetting EXCEPT !.t = "WithPath", !.enable = enable]

WithMiddlewares(middlewares) ==
  [NoSetting EXCEPT !.t = "WithMiddlewares", !.middlewares = middlewares]

WithOptions(options) ==
  [NoSetting EXCEPT !.t = "WithOptions", !.options = options]

WithInputOutput(in, out) ==
  [NoSetting EXCEPT !.t = "WithInputOutput", !.in = in, !.out = out]

\* setting(c): the method the closure calls on router c of the routers rs
Applied(rs, c, setting) ==
  CASE setting.t = "WithTablePrinter" ->
         [rs EXCEPT ![c] = WithPrinterSet(@, setting.printer)]
    [] setting.t = "WithPath" ->
         [rs EXCEPT ![c] = WithPathShow(@, setting.enable)]
    [] setting.t = "WithMiddlewares" ->
         [rs EXCEPT ![c] = WithMiddlewaresAdded(@, setting.middlewares)]
    [] setting.t = "WithOptions" ->
         OptionsAdded(rs, c, setting.options)
    [] setting.t = "WithInputOutput" ->
         [rs EXCEPT ![c] = WithInputOutputSet(@, setting.in, setting.out)]

\* the loop over the settings applying the last one first
RECURSIVE ApplySettingsBackwards(_, _, _)
ApplySettingsBackwards(rs, c, settings) ==
  IF settings = <<>> THEN rs
  ELSE Applied(ApplySettingsBackwards(rs, c, Tail(settings)), c,
               Head(settings))

\* for _, setting := range settings { setting(c) }
RECURSIVE ApplySettings(_, _, _)
ApplySettings(rs, c, settings) ==
  IF settings = <<>> THEN rs
  ELSE ApplySettings(Applied(rs, c, Head(settings)), c, Tail(settings))

\* NewCmdRouterWithSettings(name, settings...)
NewCmdRouterWithSettings(name, settings) ==
  ApplySettings(<<NewCmdRouter(name, Slice(<<>>, "own"))>>, 1, settings)[1]

\* The settings a caller passes, but for the options and the middlewares
\* they hold ...
SettingShapes ==
  {WithTablePrinter(p) : p \in Printers}
    \cup {WithPath(enable) : enable \in BOOLEAN}
    \cup {WithInputOutput(io[1], io[2]) : io \in Streams}
    \cup {WithMiddlewares(<<>>), WithOptions(<<>>)}

Plans == SeqsUpTo(SettingShapes, MaxSettings) \ {<<>>}

\* ... and with them: the caller has built an Option for each WithOptions
\* and a middleware for each WithMiddlewares, numbered in the order of the
\* settings behind those the router cv, router c, has
Built(cv, c, plan) ==
  LET nth(i, t) == Cardinality({j \in 1..i : plan[j].t = t})
  IN [i \in 1..Len(plan) |->
        CASE plan[i].t = "WithOptions" ->
               WithOptions(<<NewOption(c, Len(cv.options)
                                            + nth(i, "WithOptions"))>>)
          [] plan[i].t = "WithMiddlewares" ->
               WithMiddlewares(<<Fn("g", c, 0, Len(cv.middlewares)
                                                + nth(i, "WithMiddlewares"))>>)
          [] OTHER -> plan[i]]

\* ------------------------------------------------------------------- setup
\* what the setup has given to router c
RouterSize(c) ==
  Len(c.options) + Len(c.middlewares)
    + (IF c.tablePrinter = "DefaultPrinter" THEN 0 ELSE 1)
    + (IF c.pathShow THEN 1 ELSE 0)
    + (IF c.out = "os.Stdout" THEN 0 ELSE 1)

RECURSIVE RoutersSize(_, _)
RoutersSize(rs, n) ==
  IF n = 0 THEN 0 ELSE RouterSize(rs[n]) + RoutersSize(rs, n - 1)

\* what the setup has given to the routers rs
SetupSize(rs) ==
  RoutersSize(rs, Len(rs))
    + (IF \E d \in 1..Len(rs) : rs[d].optionsArr = "shared" THEN 1 ELSE 0)

\* root := NewCmdRouter(title), NewCmdRouter(title, shared...) or
\* NewCmdRouterWithSettings(title, settings...); no Option variable of the
\* caller differs from its registered copy
Init ==
  /\ phase = "setup"
  /\ \/ \E arr \in {"own", "shared"} :
          routers = <<NewCmdRouter(Titles[1], Slice(<<>>, arr))>>
     \/ \E plan \in Plans :
          LET new == NewCmdRouter(Titles[1], Slice(<<>>, "own"))
          IN /\ routers = <<NewCmdRouterWithSettings(
                               Titles[1], Built(new, 1, plan))>>
             /\ SetupSize(routers) <= MaxSetup
  /\ held = {}
  /\ main = NoRun
  /\ input = NoInput
  /\ printed = NoTable

\* a call of main that leaves the routers as rs and its Option variables as
\* hs
SetupStep(rs, hs) ==
  /\ phase = "setup"
  /\ Len(rs) <= MaxRouters
  /\ SetupSize(rs) + Cardinality(hs) <= MaxSetup
  /\ routers' = rs
  /\ held' = hs
  /\ UNCHANGED <<phase, main, input, printed>>

\* the slice a caller passes as initial options of router g: none, an
\* Option built for the purpose, or shared...
InitialOptions(g, init) ==
  CASE init = "none"   -> Slice(<<>>, "own")
    [] init = "own"    -> Slice(<<NewOption(g, 1)>>, "own")
    [] init = "shared" -> Slice(<<>>, "shared")

\* Group putting the option of the group before the options of the parent
GroupPrepending(c, init) ==
  LET g    == Len(routers) + 1
      name == Titles[g]
  IN /\ g <= MaxRouters
     /\ SetupStep(
          Append([routers EXCEPT
                    ![c].options = <<GroupOption(name, g)>> \o @],
                 NewGroup(routers[c], name, InitialOptions(g, init))),
          held)

\* group := c.Group(name, options...)
Group(c, init) ==
  LET g    == Len(routers) + 1
      name == Titles[g]
  IN /\ g <= MaxRouters
     /\ SetupStep(
          Append(OptionsAdded(routers, c, <<GroupOption(name, g)>>),
                 NewGroup(routers[c], name, InitialOptions(g, init))),
          held)

\* c.AddOptions(o), o an Option built for the purpose
AddOptions(c) ==
  LET o == NewOption(c, Len(routers[c].options) + 1)
  IN SetupStep(OptionsAdded(routers, c, <<o>>), held)

\* AddMiddlewares adding the middleware to the groups of the router too
AddMiddlewaresToGroups(c, own) ==
  LET m == IF own THEN Fn("g", c, 0, Len(routers[c].middlewares) + 1)
           ELSE DefaultLoggerMiddleware
  IN SetupStep([d \in 1..Len(routers) |->
                  IF /\ Len(routers[c].path) <= Len(routers[d].path)
                     /\ SubSeq(routers[d].path, 1, Len(routers[c].path))
                          = routers[c].path
                  THEN WithMiddlewaresAdded(routers[d], <<m>>)
                  ELSE routers[d]],
               held)

\* c.AddMiddlewares(m), m a middleware of the caller not registered before
\* or DefaultLoggerMiddleware
AddMiddlewares(c, own) ==
  LET m == IF own THEN Fn("g", c, 0, Len(routers[c].middlewares) + 1)
           ELSE DefaultLoggerMiddleware
  IN SetupStep([routers EXCEPT ![c] = WithMiddlewaresAdded(@, <<m>>)], held)

\* SetTablePrinter setting the printer of every router
SetTablePrinterOfAll(c, printer) ==
  /\ routers[c].tablePrinter # printer
  /\ SetupStep([d \in 1..Len(routers) |-> WithPrinterSet(routers[d], printer)],
               held)

\* c.SetTablePrinter(printer)
SetTablePrinter(c, printer) ==
  /\ routers[c].tablePrinter # printer
  /\ SetupStep([routers EXCEPT ![c] = WithPrinterSet(@, printer)], held)

\* PathShow setting the path display of the groups of the router as well
PathShowOfGroups(c, enable) ==
  /\ routers[c].pathShow # enable
  /\ SetupStep(
       [d \in 1..Len(routers) |->
          IF \/ d = c
             \/ \E k \in 1..Len(routers[c].options) :
                  routers[c].options[k].Handler = Layer("group", NoFn, d, 0)
          THEN WithPathShow(routers[d], enable)
          ELSE routers[d]],
       held)

\* c.PathShow(enable)
PathShow(c, enable) ==
  /\ routers[c].pathShow # enable
  /\ SetupStep([routers EXCEPT ![c] = WithPathShow(@, enable)], held)

\* SetInputOutput setting the streams of the groups of the router as well
SetInputOutputOfGroups(c, io) ==
  /\ <<routers[c].in, routers[c].out>> # io
  /\ SetupStep(
       [d \in 1..Len(routers) |->
          IF \/ d = c
             \/ \E k \in 1..Len(routers[c].options) :
                  routers[c].options[k].Handler = Layer("group", NoFn, d, 0)
          THEN WithInputOutputSet(routers[d], io[1], io[2])
          ELSE routers[d]],
       held)

\* c.SetInputOutput(in, out)
SetInputOutput(c, io) ==
  /\ <<routers[c].in, routers[c].out>> # io
  /\ SetupStep([routers EXCEPT ![c] = WithInputOutputSet(@, io[1], io[2])],
               held)

\* c.Setup(settings...)
Setup(c, plan) ==
  SetupStep(ApplySettings(routers, c, Built(routers[c], c, plan)), held)

\* o.AddMiddlewares(m) on the variable o of the caller that was registered
\* as option k of router c: AddOptions got a copy of the Option value, and
\* the middleware goes to the variable
OptionAddMiddlewaresLate(c, k) ==
  /\ k \in 1..Len(routers[c].options)
  /\ routers[c].options[k] = NewOption(c, k)
  /\ \A h \in held : <<h.r, h.k>> # <<c, k>>
  /\ SetupStep(routers,
               held \cup {[r |-> c, k |-> k,
                           o |-> OptionAddMiddlewares(routers[c].options[k],
                                                      <<Fn("l", c, k, 3)>>)]})

\* ----------------------------------------------------------------- the run
\* a step of the run; the program is done when root.Run has returned
RunStep(enabled, next) ==
  /\ phase = "run"
  /\ enabled
  /\ main' = next
  /\ phase' = IF main'.stack = <<>> THEN "done" ELSE "run"
  /\ UNCHANGED <<routers, held, input, printed>>

\* main calls root.Run(ctx)
StartRun ==
  /\ phase = "setup"
  /\ phase' = "run"
  /\ main' = Push(NoRun, Frame("Run", 1, 0, NoFn, <<>>, "prompt"))
  /\ UNCHANGED <<routers, held, input, printed>>

\* the stream supplies `lines` to the scanner of getOptionNumber
GetOptionNumber(lines) ==
  RunStep(CanRead(routers, main, lines), Prompted(routers, main, lines))

\* RunExit ending the program, as os.Exit would
RunExitProgram == RunStep(CanExit(main), [main EXCEPT !.stack = <<>>])

RunExit == RunStep(CanExit(main), Exited(main))

RunDispatch == RunStep(CanDispatch(main), Dispatched(routers, main))

\* RunLoop returning from Run when the chain returned an error
RunLoopUnlessError ==
  RunStep(CanLoop(main),
          IF Top(main).res = "nil" THEN Looped(routers, main)
          ELSE Return(main, "nil"))

RunLoop == RunStep(CanLoop(main), Looped(routers, main))

MiddlewareEnter(callsNext) ==
  RunStep(CanEnter(main, callsNext), Entered(routers, main, callsNext))

MiddlewareLeave == RunStep(CanLeave(main), Left(main))

HandlerCall(res) == RunStep(CanHandle(main), Handled(main, res))

Next ==
  \/ \E c \in 1..Len(routers), init \in {"none", "own", "shared"} :
       Group(c, init)
  \/ \E c \in 1..Len(routers) : AddOptions(c)
  \/ \E c \in 1..Len(routers), own \in BOOLEAN : AddMiddlewares(c, own)
  \/ \E c \in 1..Len(routers), printer \in Printers : SetTablePrinter(c, printer)
  \/ \E c \in 1..Len(routers), enable \in BOOLEAN : PathShow(c, enable)
  \/ \E c \in 1..Len(routers), io \in Streams : SetInputOutput(c, io)
  \/ \E c \in 1..Len(routers), plan \in Plans : Setup(c, plan)
  \/ \E c \in 1..Len(routers), k \in 1..MaxSetup : OptionAddMiddlewaresLate(c, k)
  \/ StartRun
  \/ /\ AtRun(main, "prompt")
     /\ \E lines \in Scannable(routers[Top(main).r]) : GetOptionNumber(lines)
  \/ RunExit
  \/ RunDispatch
  \/ RunLoop
  \/ \E callsNext \in BOOLEAN : MiddlewareEnter(callsNext)
  \/ MiddlewareLeave
  \/ \E res \in {"nil", "err"} : HandlerCall(res)

Spec == Init /\ [][Next]_vars

\* the setups that main makes through settings, and Group, alone
SettingsNext ==
  \/ \E c \in 1..Len(routers), plan \in Plans : Setup(c, plan)
  \/ \E c \in 1..Len(routers), init \in {"none", "own", "shared"} :
       Group(c, init)

SettingsSpec == Init /\ [][SettingsNext]_vars

\* ------------------------------------------------------------------ panics
\* A handler or a middleware of the caller may panic instead of returning.
\* The panic leaves the functions on the stack one after the other, Run
\* and the closures of groups included, until one has deferred a function
\* that calls recover(): DefaultRecoverMiddleware, once it has called next.
\* With none on the stack the program ends.

\* frame f is a closure of DefaultRecoverMiddleware that has called next
Recovers(f) ==
  f.fn = "mw" /\ f.f = DefaultRecoverMiddleware /\ f.pc = "wait"

\* Panicked with the deferred function leaving err as it is
RECURSIVE PanickedSwallowed(_)
PanickedSwallowed(w) ==
  LET popped == [w EXCEPT !.stack = SubSeq(@, 1, Len(@) - 1)]
  IN IF popped.stack = <<>> THEN popped
     ELSE IF Recovers(Top(popped))
     THEN Return(Logged(popped, <<CallEv("recover", Top(popped).f)>>), "nil")
     ELSE PanickedSwallowed(popped)

\* the function on top of the stack panics with a value other than nil:
\* the deferred function of the nearest DefaultRecoverMiddleware sets
\* err = fmt.Errorf("panic: %v", r), and the closure returns err
RECURSIVE Panicked(_)
Panicked(w) ==
  LET popped == [w EXCEPT !.stack = SubSeq(@, 1, Len(@) - 1)]
  IN IF popped.stack = <<>> THEN popped
     ELSE IF Recovers(Top(popped))
     THEN Return(Logged(popped, <<CallEv("recover", Top(popped).f)>>), "err")
     ELSE Panicked(popped)

\* a step of the run in which a function panics; a panic nothing recovers
\* from ends the program
PanicStep(enabled, next) ==
  /\ phase = "run"
  /\ enabled
  /\ main' = next
  /\ phase' = IF main'.stack = <<>> THEN "crashed" ELSE "run"
  /\ UNCHANGED <<routers, held, input, printed>>

\* a user handler panics
HandlerPanic ==
  PanicStep(CanHandle(main),
            Panicked(Logged(main, <<CallEv("handler", Top(main).f)>>)))

\* a middleware of the caller panics, before it calls next ...
CanPanicBefore(w) ==
  /\ AtFn(w, "mw", "pre")
  /\ Top(w).f \notin {DefaultLoggerMiddleware, DefaultRecoverMiddleware}

MiddlewarePanicBefore ==
  PanicStep(CanPanicBefore(main),
            Panicked(Logged(main, <<CallEv("pre", Top(main).f)>>)))

\* ... or when next has returned
CanPanicAfter(w) ==
  /\ AtFn(w, "mw", "returned")
  /\ Top(w).f \notin {DefaultLoggerMiddleware, DefaultRecoverMiddleware}

MiddlewarePanicAfter == PanicStep(CanPanicAfter(main), Panicked(main))

\* c.AddMiddlewares(DefaultRecoverMiddleware)
AddRecoverMiddleware(c) ==
  SetupStep([routers EXCEPT
               ![c] = WithMiddlewaresAdded(@, <<DefaultRecoverMiddleware>>)],
            held)

\* root := NewCmdRouter(title)
PanicInit ==
  /\ phase = "setup"
  /\ routers = <<NewCmdRouter(Titles[1], Slice(<<>>, "own"))>>
  /\ held = {}
  /\ main = NoRun
  /\ input = NoInput
  /\ printed = NoTable

\* the runs in which handlers and middlewares may panic, of the routers
\* main has built with Group, AddOptions and AddMiddlewares
PanicNext ==
  \/ \E c \in 1..Len(routers), init \in {"none", "own"} : Group(c, init)
  \/ \E c \in 1..Len(routers) : AddOptions(c)
  \/ \E c \in 1..Len(routers), own \in BOOLEAN : AddMiddlewares(c, own)
  \/ \E c \in 1..Len(routers) : AddRecoverMiddleware(c)
  \/ StartRun
  \/ /\ AtRun(main, "prompt")
     /\ \E lines \in Scannable(routers[Top(main).r]) : GetOptionNumber(lines)
  \/ RunExit
  \/ RunDispatch
  \/ RunLoop
  \/ \E callsNext \in BOOLEAN : MiddlewareEnter(callsNext)
  \/ MiddlewareLeave
  \/ \E res \in {"nil", "err"} : HandlerCall(res)
  \/ HandlerPanic
  \/ MiddlewarePanicBefore
  \/ MiddlewarePanicAfter

PanicSpec == PanicInit /\ [][PanicNext]_vars

\* -------------------------------------------------------- the input stream
\* The routers of these runs read the one stream os.Stdin, which holds
\* input.left lines and then ends.  Each getOptionNumber makes a scanner of
\* its own on the stream (bufio.NewScanner(c.in)): the scanner reads ahead,
\* into its buffer, what the stream delivers in one Read, and the lines it
\* has read behind the one it returns go with it when getOptionNumber
\* returns.  A Read may fail; the scanner keeps the error.

\* "Input error. Try again."
InputError(c) == WriteEv(c.out, <<"Input error. Try again.", "\n">>)

Prompt(c) == WriteEv(c.out, <<"Enter option number: ">>)

\* root := NewCmdRouter(title)
StreamInit ==
  /\ phase = "setup"
  /\ routers = <<NewCmdRouter(Titles[1], Slice(<<>>, "own"))>>
  /\ held = {}
  /\ main = NoRun
  /\ input = NoInput
  /\ printed = NoTable

\* main calls root.Run(ctx) with n lines in the stream
StreamStart(n) ==
  /\ phase = "setup"
  /\ phase' = "run"
  /\ main' = Push(NoRun, Frame("Run", 1, 0, NoFn, <<>>, "prompt"))
  /\ input' = Stream(n)
  /\ UNCHANGED <<routers, held, printed>>

\* the Runs on the stack
Depth(w) == Cardinality({i \in 1..Len(w.stack) : w.stack[i].fn = "Run"})

\* StreamRead going round the loop at the end of the stream
StreamReadAgainAtEnd(lines, lost) ==
  LET c   == routers[Top(main).r]
      got == getOptionNumber(c, lines)
  IN /\ phase = "run"
     /\ AtRun(main, "prompt")
     /\ got.scanned = Len(lines)
     /\ Len(lines) <= input.left
     /\ IF got.eof THEN Len(lines) = input.left /\ lost = 0
        ELSE lost <= input.left - Len(lines)
     /\ main' = IF got.eof
                THEN SetTop(main, [Top(main) EXCEPT !.menu = got.out])
                ELSE PromptedBy(c, main, lines)
     /\ input' = [input EXCEPT
                    !.left  = input.left - Len(lines) - lost,
                    !.lost  = input.lost + lost,
                    !.eofAt = IF got.eof /\ input.eofAt = 0 THEN Depth(main)
                              ELSE input.eofAt]
     /\ UNCHANGED <<phase, routers, held, printed>>

\* optionNumber := c.getOptionNumber(): the scanner scans `lines`, up to a
\* line that is a selection or to the end of the stream, and has read
\* `lost` lines more when it is dropped
StreamRead(lines, lost) ==
  LET c   == routers[Top(main).r]
      got == getOptionNumber(c, lines)
  IN /\ phase = "run"
     /\ AtRun(main, "prompt")
     /\ got.scanned = Len(lines)
     /\ Len(lines) <= input.left
     /\ IF got.eof THEN Len(lines) = input.left /\ lost = 0
        ELSE lost <= input.left - Len(lines)
     /\ main' = PromptedBy(c, main, lines)
     /\ input' = [input EXCEPT
                    !.left  = input.left - Len(lines) - lost,
                    !.lost  = input.lost + lost,
                    !.eofAt = IF got.eof /\ input.eofAt = 0 THEN Depth(main)
                              ELSE input.eofAt]
     /\ UNCHANGED <<phase, routers, held, printed>>

\* a Read of the stream fails in getOptionNumber: scanner.Scan() is false
\* and scanner.Err() is not nil; the diagnostic is written
StreamFault ==
  LET c == routers[Top(main).r]
  IN /\ phase = "run"
     /\ AtRun(main, "prompt")
     /\ main' = SetTop(main,
                       [Top(main) EXCEPT
                          !.pc = "fault", !.log = <<>>,
                          !.menu = showPath(c) \o showMenu(c)
                                     \o <<Prompt(c), InputError(c)>>])
     /\ UNCHANGED <<phase, routers, held, input, printed>>

\* continue: the prompt is written again (of what getOptionNumber has
\* written, the frame keeps the last pass of the loop) ...
StreamPromptAgain ==
  LET c == routers[Top(main).r]
  IN /\ phase = "run"
     /\ AtRun(main, "fault")
     /\ main' = SetTop(main, [Top(main) EXCEPT !.pc = "scan",
                                               !.menu = <<Prompt(c)>>])
     /\ UNCHANGED <<phase, routers, held, input, printed>>

\* ... and the same scanner scans again: Scan() is false and Err() is the
\* error it has kept
StreamScanAgain ==
  LET c == routers[Top(main).r]
  IN /\ phase = "run"
     /\ AtRun(main, "scan")
     /\ main' = SetTop(main, [Top(main) EXCEPT
                                !.pc = "fault",
                                !.menu = <<Prompt(c), InputError(c)>>])
     /\ UNCHANGED <<phase, routers, held, input, printed>>

\* the steps of root.Run
StreamRun ==
  \/ /\ AtRun(main, "prompt")
     /\ \E lines \in Scannable(routers[Top(main).r]), lost \in 0..MaxInput :
          StreamRead(lines, lost)
  \/ StreamPromptAgain
  \/ StreamScanAgain
  \/ RunExit
  \/ RunDispatch
  \/ RunLoop
  \/ \E callsNext \in BOOLEAN : MiddlewareEnter(callsNext)
  \/ MiddlewareLeave
  \/ \E res \in {"nil", "err"} : HandlerCall(res)

StreamNext ==
  \/ \E c \in 1..Len(routers), init \in {"none", "own"} : Group(c, init)
  \/ \E c \in 1..Len(routers) : AddOptions(c)
  \/ \E n \in 0..MaxInput : StreamStart(n)
  \/ StreamFault
  \/ StreamRun

\* root.Run runs on the goroutine that called it: while it has a step to
\* take it takes one; a Read of a stream that ends returns.  Whether a Read
\* fails is not for the program to decide.
StreamSpec == StreamInit /\ [][StreamNext]_vars /\ WF_vars(StreamRun)

\* ------------------------------------------------------ repeated dispatch
\* ComposedInPlace keeps what Option.Run has composed: the middlewares of
\* the option are applied once more at each dispatch
ComposedInPlace(rt, r, k) ==
  [rt EXCEPT ![r].options[k].middlewares = @ \o rt[r].options[k].middlewares]

\* the routers after Run and Option.Run have composed the handler of option
\* k of router r: handler is a variable of the function, each closure goes
\* to it alone, and no field of the router or of the option is assigned
Composed(rt, r, k) == rt

\* RunDispatch, with the option recorded as dispatched
RecordedDispatch ==
  /\ phase = "run"
  /\ CanDispatch(main)
  /\ main' = Dispatched(routers, main)
  /\ routers' = Composed(routers, Top(main).r, Top(main).sel)
  /\ input' = [input EXCEPT
                 !.dispatched = Append(@, <<Top(main).r, Top(main).sel>>)]
  /\ UNCHANGED <<phase, held, printed>>

\* the runs, over a stream of counted lines, of a router main has built
\* with AddOptions and AddMiddlewares
DispatchNext ==
  \/ \E c \in 1..Len(routers) : AddOptions(c)
  \/ \E c \in 1..Len(routers), own \in BOOLEAN : AddMiddlewares(c, own)
  \/ \E n \in 0..MaxInput : StreamStart(n)
  \/ /\ AtRun(main, "prompt")
     /\ \E lines \in Scannable(routers[Top(main).r]), lost \in 0..MaxInput :
          StreamRead(lines, lost)
  \/ RunExit
  \/ RecordedDispatch
  \/ RunLoop
  \/ \E callsNext \in BOOLEAN : MiddlewareEnter(callsNext)
  \/ MiddlewareLeave
  \/ \E res \in {"nil", "err"} : HandlerCall(res)

DispatchSpec == StreamInit /\ [][DispatchNext]_vars

\* -------------------------------------------------------- groups of groups
\* a call of main on a router of the tree that leaves the routers as rs
TreeStep(rs) ==
  /\ phase = "setup"
  /\ Len(rs) <= MaxTree
  /\ routers' = rs
  /\ UNCHANGED <<phase, held, main, input, printed>>

\* group := c.Group(name), c the root or a group
TreeGroup(c) ==
  LET g    == Len(routers) + 1
      name == Titles[g]
  IN TreeStep(Append(OptionsAdded(routers, c, <<GroupOption(name, g)>>),
                     NewGroup(routers[c], name, Slice(<<>>, "own"))))

\* c.PathShow(enable)
TreePathShow(c, enable) ==
  /\ routers[c].pathShow # enable
  /\ TreeStep([routers EXCEPT ![c] = WithPathShow(@, enable)])

TreeNext ==
  \/ \E c \in 1..Len(routers) : TreeGroup(c)
  \/ \E c \in 1..Len(routers), enable \in BOOLEAN : TreePathShow(c, enable)

TreeSpec == StreamInit /\ [][TreeNext]_vars

\* ---------------------------------------------------------- DefaultPrinter
\* A string is the sequence of its characters; "e-acute" is the one
\* character U+00E9, two bytes in UTF-8, and the other characters used here
\* take one byte.  A cell is a string or an int.
StringCell(s) == [t |-> "string", s |-> s, n |-> 0]

IntCell(n) == [t |-> "int", s |-> <<>>, n |-> n]

\* utf8.RuneCountInString(s)
RuneCountInString(s) == Len(s)

\* the decimal digits of n >= 0
RECURSIVE Digits(_)
Digits(n) ==
  IF n < 10 THEN <<DigitChars[n + 1]>>
  ELSE Append(Digits(n \div 10), DigitChars[(n % 10) + 1])

\* fmt.Sprint(cell), and %v of cell
Sprint(cell) ==
  IF cell.t = "string" THEN cell.s
  ELSE IF cell.n < 0 THEN <<"-">> \o Digits(0 - cell.n)
  ELSE Digits(cell.n)

\* strings.Repeat(ch, n)
Repeat(ch, n) == [i \in 1..n |-> ch]

\* fmt.Sprintf("%-<w>v", cell): the text of the cell, and spaces behind it
\* up to w characters
PadRight(cell, w) ==
  LET text == Sprint(cell)
  IN text \o Repeat(" ", IF w > RuneCountInString(text)
                         THEN w - RuneCountInString(text) ELSE 0)

\* for i, cell := range row: colWidths[i] is raised to the length of the
\* cell; there is no colWidths[i] behind the last header
RECURSIVE WidenedBy(_, _, _)
WidenedBy(colWidths, row, i) ==
  IF i > Len(row) \/ i > Len(colWidths) THEN colWidths
  ELSE LET length == RuneCountInString(Sprint(row[i]))
       IN WidenedBy(IF length > colWidths[i]
                    THEN [colWidths EXCEPT ![i] = length]
                    ELSE colWidths,
                    row, i + 1)

RECURSIVE WidenedByRows(_, _)
WidenedByRows(colWidths, rows) ==
  IF rows = <<>> THEN colWidths
  ELSE WidenedByRows(WidenedBy(colWidths, Head(rows), 1), Tail(rows))

\* computeColumnWidths with len() in the place of utf8.RuneCountInString
\* for the headers
computeColumnWidthsInBytes(headers, rows) ==
  LET RECURSIVE ByteLen(_)
      ByteLen(s) ==
        IF s = <<>> THEN 0
        ELSE (IF Head(s) = "e-acute" THEN 2 ELSE 1) + ByteLen(Tail(s))
  IN WidenedByRows([i \in 1..Len(headers) |-> ByteLen(headers[i])], rows)

\* computeColumnWidths, for rows none of which has more cells than there
\* are headers
computeColumnWidths(headers, rows) ==
  WidenedByRows([i \in 1..Len(headers) |-> RuneCountInString(headers[i])],
                rows)

offset == 2

\* printBorder: the line it writes
RECURSIVE printBorder(_)
printBorder(colWidths) ==
  IF colWidths = <<>> THEN <<"+">>
  ELSE <<"+">> \o Repeat("-", Head(colWidths) + offset)
         \o printBorder(Tail(colWidths))

\* printRow: the line it writes
RECURSIVE printRow(_, _)
printRow(colWidths, row) ==
  IF row = <<>> THEN <<"|">>
  ELSE <<"|", " ">> \o PadRight(Head(row), Head(colWidths)) \o <<" ">>
         \o printRow(Tail(colWidths), Tail(row))

toAny(strs) == [i \in 1..Len(strs) |-> StringCell(strs[i])]

\* DefaultPrinter.PrintTable(out, headers, rows): the lines written to out;
\* a row with more cells than there are headers makes computeColumnWidths
\* panic, index out of range, before anything is written
PrintTable(headers, rows) ==
  IF Len(headers) = 0 THEN [lines |-> <<>>, panicked |-> FALSE]
  ELSE IF \E r \in 1..Len(rows) : Len(rows[r]) > Len(headers)
  THEN [lines |-> <<>>, panicked |-> TRUE]
  ELSE LET colWidths == computeColumnWidths(headers, rows)
       IN [lines |->
             <<printBorder(colWidths), printRow(colWidths, toAny(headers)),
               printBorder(colWidths)>>
               \o [r \in 1..Len(rows) |-> printRow(colWidths, rows[r])]
               \o <<printBorder(colWidths)>>,
           panicked |-> FALSE]

\* the headers and the cells of the tables
HeaderStrings == {<<>>, <<"e-acute">>, <<"a", "b", "c">>}

Cells ==
  {StringCell(<<"a">>), StringCell(<<"e-acute", "e-acute">>), IntCell(10)}

\* the lists of rows, each of one cell at least, of n cells at most together
RECURSIVE RowsUpTo(_)
RowsUpTo(n) ==
  {<<>>} \cup
    UNION {{<<row>> \o rest : rest \in RowsUpTo(n - Len(row))} :
             row \in SeqsUpTo(Cells, n) \ {<<>>}}

\* the tables of MaxTable headers and cells at most
Tables ==
  UNION {{Table(headers, rows) : rows \in RowsUpTo(MaxTable - Len(headers))} :
           headers \in SeqsUpTo(HeaderStrings, MaxTable)}

\* a table is given to DefaultPrinter
PrinterInit ==
  /\ phase = "setup"
  /\ routers = <<NewCmdRouter(Titles[1], Slice(<<>>, "own"))>>
  /\ held = {}
  /\ main = NoRun
  /\ input = NoInput
  /\ printed \in Tables

\* the call returns, or panics
PrintTableCall ==
  /\ printed.state = "called"
  /\ LET got == PrintTable(printed.headers, printed.rows)
     IN printed' = [printed EXCEPT !.lines = got.lines,
                                   !.panicked = got.panicked,
                                   !.state = "returned"]
  /\ UNCHANGED <<phase, routers, held, main, input>>

PrinterNext == PrintTableCall

PrinterSpec == PrinterInit /\ [][PrinterNext]_vars

\* ------------------------------------------------------------- properties
\* the Run frames of the main run
RunFrames == {i \in 1..Len(main.stack) : main.stack[i].fn = "Run"}

\* the function an Option's Handler is bound to, as the log names it
HandlerFn(o) ==
  IF o.Handler.t = "group" THEN Fn("group", o.Handler.r, 0, 0)
  ELSE o.Handler.f

Reverse(seq) == [i \in 1..Len(seq) |-> seq[Len(seq) + 1 - i]]

Calls(e, fs) == [i \in 1..Len(fs) |-> CallEv(e, fs[i])]

IsPrefix(a, b) == Len(a) <= Len(b) /\ SubSeq(b, 1, Len(a)) = a

HandlerRan(log) == \E i \in 1..Len(log) : log[i].e = "handler"

\* the calls of a dispatch of option k of router c in which every wrapper
\* calls next: in, through the global then the local middlewares, the
\* handler, and out again in reverse
FullChain(c, k) ==
  LET chain == c.middlewares \o c.options[k].middlewares
  IN Calls("pre", chain)
       \o <<CallEv("handler", HandlerFn(c.options[k]))>>
       \o Calls("post", Reverse(chain))

\* the calls a Run frame has logged in its current dispatch
CallsOf(f) == SelectSeq(f.log, LAMBDA ev : ev.e # "write")

\* C1: in a dispatch in which every wrapper calls next (so that the handler
\* is reached), the calls made are, in this order, the pre-logic of the
\* global middlewares in registration order, the pre-logic of the option's
\* local middlewares in registration order, the handler once, and the
\* post-logic in the reverse order; when the chain has returned, all of them
\* have been made.
C1_ChainOrder ==
  \A i \in RunFrames :
    LET f == main.stack[i]
        full == FullChain(routers[f.r], f.sel)
    IN (f.pc \in {"chain", "returned"} /\ HandlerRan(f.log)) =>
         /\ IsPrefix(CallsOf(f), full)
         /\ f.pc = "returned" => CallsOf(f) = full

\* a dispatch through two global and two local middlewares has returned
C1_Witness ==
  \E i \in RunFrames :
    LET f == main.stack[i]
    IN /\ f.pc = "returned"
       /\ HandlerRan(f.log)
       /\ Len(routers[f.r].middlewares) = 2
       /\ Len(routers[f.r].options[f.sel].middlewares) = 2
       /\ Len(CallsOf(f)) = 9

\* the handlers a Run frame has logged as run in its current dispatch
HandlersRun(f) == SelectSeq(f.log, LAMBDA ev : ev.e = "handler")

\* a wrapper returned without calling next in the current dispatch of f
ShortCircuited(f) == \E i \in 1..Len(f.log) : f.log[i].e = "short"

\* C2 as stated: when the chain of a dispatch of selection k has returned,
\* the handler of option k has run exactly once, and no other handler of
\* the router.
C2_Original ==
  \A i \in RunFrames :
    LET f == main.stack[i]
    IN f.pc = "returned" =>
         HandlersRun(f) =
           <<CallEv("handler", HandlerFn(routers[f.r].options[f.sel]))>>

\* C2 (amended): in the dispatch of an accepted selection k, 1 <= k <= n, no
\* handler of the router other than that of option k runs, and that one at
\* most once; when the chain has returned and no wrapper returned without
\* calling next, it has run exactly once.
C2_Dispatch ==
  \A i \in RunFrames :
    LET f == main.stack[i]
        h == <<CallEv("handler", HandlerFn(routers[f.r].options[f.sel]))>>
    IN f.pc \in {"chain", "returned"} =>
         /\ f.sel \in 1..Len(routers[f.r].options)
         /\ IsPrefix(HandlersRun(f), h)
         /\ (f.pc = "returned" /\ ~ShortCircuited(f)) => HandlersRun(f) = h

\* the second of two options has been dispatched and its handler has run
C2_Witness ==
  \E i \in RunFrames :
    LET f == main.stack[i]
    IN /\ f.pc = "returned"
       /\ f.sel = 2
       /\ HandlersRun(f) = <<CallEv("handler", Fn("h", f.r, 2, 0))>>

\* a step in which the Run on top of the stack returns and nothing is
\* called: the frame of Run (and those of the group closure and the
\* Option.Run that called it) are gone, the frames below are as they were,
\* but for the caller that resumes
RunReturns ==
  LET n  == Len(main.stack)
      n2 == Len(main'.stack)
  IN /\ n2 < n
     /\ \A i \in (n2 + 1)..(n - 1) : main.stack[i].fn \in {"group", "optrun"}
     /\ \A i \in 1..n2 :
          /\ main'.stack[i].log = main.stack[i].log
          /\ main'.stack[i].fn = main.stack[i].fn
          /\ i < n2 => main'.stack[i] = main.stack[i]

\* C3: when the selection read is 0, Run returns, and in that cycle of the
\* loop no handler and no middleware is called.
C3_ExitOnZero ==
  [][(AtRun(main, "selected") /\ Top(main).sel = exitNumber) =>
       (Top(main).log = <<>> /\ RunReturns)]_vars

\* 0 has been read by a router that has an option and a global middleware
C3_Witness ==
  /\ AtRun(main, "selected")
  /\ Top(main).sel = exitNumber
  /\ ~Eof(routers, main)
  /\ routers[Top(main).r].options # <<>>
  /\ routers[Top(main).r].middlewares # <<>>

\* the input lines that are digits between spaces, with the number each
\* denotes
UnsignedLines ==
  { <<<<"0">>, 0>>, <<<<"1">>, 1>>, <<<<" ", "2", " ">>, 2>> }

\* the input lines that are integers, with the integer each denotes
IntegerLines == UnsignedLines \cup { <<<<"+", "1">>, 1>>, <<<<"-", "1">>, -1>> }

\* the lines that are not an integer in 0..n
BadLines(n) ==
  {l \in InputLines : \A p \in IntegerLines : p[1] = l => p[2] \notin 0..n}

\* the lines that are an integer in 0..n
GoodLines(n) == {p \in IntegerLines : p[2] \in 0..n}

Count(seq, Test(_)) == Len(SelectSeq(seq, Test))

IsPrompt(ev) == ev.e = "write" /\ ev.txt = <<"Enter option number: ">>

IsDiagnostic(ev) ==
  ev.e = "write" /\ ev.txt = <<"Invalid number. Try again.", "\n">>

\* in the prompting state `main`: whatever lines that are no selection
\* precede a line that is one, reading them calls nothing, answers each with
\* a diagnostic and a new prompt, and yields the selection of the last line;
\* when that is 0, Run returns
BadLinesOnlyReprompt ==
  LET n == Len(routers[Top(main).r].options)
  IN \A bad \in SeqsUpTo(BadLines(n), MaxLines - 1), good \in GoodLines(n) :
       LET lines == Append(bad, good[1])
           after == Prompted(routers, main, lines)
           f     == Top(after)
       IN /\ CanRead(routers, main, lines)
          /\ Len(after.stack) = Len(main.stack)
          /\ f.pc = "selected"
          /\ f.log = <<>>
          /\ f.sel = good[2]
          /\ Count(f.menu, IsDiagnostic) = Len(bad)
          /\ Count(f.menu, IsPrompt) = Len(bad) + 1
          /\ good[2] = 0 =>
               /\ CanExit(after)
               /\ Len(Exited(after).stack) < Len(after.stack)

\* C4: a line that is not an integer, or is an integer outside [0, n], calls
\* no handler and no middleware; it is answered with a diagnostic and a new
\* prompt, and a later line 0 ends the loop of the router.
C4_InvalidInput ==
  /\ (AtRun(main, "prompt") /\ ~Eof(routers, main)) => BadLinesOnlyReprompt
  /\ AtRun(main, "selected") =>
       /\ Top(main).log = <<>>
       /\ Count(Top(main).menu, IsPrompt)
            = Count(Top(main).menu, IsDiagnostic) + 1

\* a router with an option has answered a line with a diagnostic and then
\* read 0 from a later line
C4_Witness ==
  /\ AtRun(main, "selected")
  /\ Top(main).sel = exitNumber
  /\ ~Eof(routers, main)
  /\ Count(Top(main).menu, IsDiagnostic) >= 1
  /\ routers[Top(main).r].options # <<>>

\* the returns that follow in w without any further call or input: the
\* middlewares on top of the stack return, and the Run they return to
\* starts its loop over
RECURSIVE Unwind(_)
Unwind(w) ==
  IF CanLeave(w) THEN Unwind(Left(w))
  ELSE IF CanLoop(w) THEN Looped(routers, w)
  ELSE w

\* the Run of a group is called by the closure Group generated, which the
\* Run of the parent reached by dispatching the option of that group
GroupRunsInParent ==
  \A i \in RunFrames :
    i > 1 =>
      LET p      == RunIdx(SubSeq(main.stack, 1, i - 1))
          parent == main.stack[p]
      IN /\ main.stack[i - 1].fn = "group"
         /\ main.stack[i - 1].r = main.stack[i].r
         /\ routers[main.stack[i].r].isGroup
         /\ parent.pc = "chain"
         /\ routers[parent.r].options[parent.sel].Handler
              = Layer("group", NoFn, main.stack[i].r, 0)

\* the Run of a group returns: the Run of the parent stays on the stack,
\* below nothing but its own middlewares, the chain gets nil from the
\* closure of the group, and once these middlewares have returned the parent
\* is at the top of its loop
ParentResumes ==
  LET n == Len(main.stack)
      p == RunIdx(SubSeq(main.stack, 1, n - 1))
      u == Unwind(main')
  IN /\ Len(main'.stack) >= p
     /\ main'.stack[p].fn = "Run"
     /\ main'.stack[p].r = main.stack[p].r
     /\ \A i \in (p + 1)..Len(main'.stack) : main'.stack[i].fn = "mw"
     /\ Top(main').pc = "returned"
     /\ Top(main').res = "nil"
     /\ Len(u.stack) = p
     /\ AtRun(u, "prompt")
     /\ Top(u).r = main.stack[p].r

\* C5: selecting the option of a submenu runs the loop of the child; 0 read
\* in the child ends the loop of the child only: the parent has not
\* returned, and is prompting again once its chain has returned.
C5_Submenu ==
  [][/\ GroupRunsInParent'
     /\ (CanExit(main) /\ Len(main.stack) > 1) => ParentResumes]_vars

\* the root is prompting again after the dispatch of a group
C5_Witness ==
  /\ AtRun(main, "prompt")
  /\ Len(main.stack) = 1
  /\ \E i \in 1..Len(Top(main).log) :
       /\ Top(main).log[i].e = "handler"
       /\ Top(main).log[i].f.kind = "group"

\* C6: after the chain has returned, with an error or without, the router
\* is prompting again; a Run only returns on the selection 0, read from a
\* line or standing for the end of the input.
C6_ErrorsNotFatal ==
  [][/\ AtRun(main, "returned") =>
          /\ Len(main'.stack) = Len(main.stack)
          /\ AtRun(main', "prompt")
          /\ Top(main').r = Top(main).r
     /\ Cardinality({i \in 1..Len(main'.stack) : main'.stack[i].fn = "Run"})
          < Cardinality(RunFrames) => CanExit(main)]_vars

\* the chain has returned an error to Run
C6_Witness == AtRun(main, "returned") /\ Top(main).res = "err"

IsReport(ev) == ev.e = "write" /\ ev.dst = "slog.Error"

\* the reports written with slog.Error in the dispatches under way
RECURSIVE Reports(_, _)
Reports(stack, n) ==
  IF n = 0 THEN 0 ELSE Count(stack[n].log, IsReport) + Reports(stack, n - 1)

ShortAt(log) == CHOOSE i \in 1..Len(log) : log[i].e = "short"

\* the Run frame at i has a dispatch in which the wrapper at position p of
\* the chain returned an error without calling next: the wrappers before p
\* were entered in order, nothing after p was, the wrappers before p return
\* innermost first, each having got the error, and then Run has got it
ShortCircuitAt(i) ==
  LET f     == main.stack[i]
      c     == routers[f.r]
      chain == c.middlewares \o c.options[f.sel].middlewares
      p     == ShortAt(CallsOf(f)) - 1
      callee == SubSeq(main.stack, i + 1, Len(main.stack))
      above == SelectSeq(callee, LAMBDA g : g.fn = "mw")
      left  == p - 1 - Len(above)
  IN /\ p \in 1..Len(chain)
     /\ \A j \in 1..Len(callee) : callee[j].fn \in {"mw", "optrun"}
     /\ Len(above) <= p - 1
     /\ \A j \in 1..Len(above) : above[j].f = chain[j]
     /\ CallsOf(f)
          = Calls("pre", SubSeq(chain, 1, p))
              \o <<CallEv("short", chain[p])>>
              \o Calls("post", SubSeq(Reverse(SubSeq(chain, 1, p - 1)), 1, left))
     /\ IF above = <<>>
        THEN \/ f.pc = "returned" /\ f.res = "err"
             \/ f.pc = "prompt"
        ELSE /\ f.pc = "chain"
             /\ Top(main).pc = "returned"
             /\ Top(main).res = "err"

\* C8: when the wrapper at position i of the chain, the global middlewares
\* followed by the local ones, returns an error without calling next, no
\* wrapper after i and no handler runs in that dispatch, and the error is
\* what each wrapper before i, and then Run, gets from its call.
C8_ShortCircuit ==
  \A i \in RunFrames : ShortCircuited(main.stack[i]) => ShortCircuitAt(i)

\* a local middleware behind a global one has returned without calling
\* next, and Run has got the error
C8_Witness ==
  /\ AtRun(main, "returned")
  /\ Top(main).res = "err"
  /\ ShortCircuited(Top(main))
  /\ ShortAt(CallsOf(Top(main))) - 1 > Len(routers[Top(main).r].middlewares)
  /\ routers[Top(main).r].middlewares # <<>>

\* in the prompting state `main`: when the stream ends behind lines none of
\* which is a selection, getOptionNumber gives 0 and nothing is called
EndOfStreamIsExit ==
  LET n == Len(routers[Top(main).r].options)
  IN \A bad \in (IF Eof(routers, main) THEN {<<>>}
                  ELSE SeqsUpTo(BadLines(n), MaxLines)) :
       LET after == Prompted(routers, main, bad)
       IN /\ CanRead(routers, main, bad)
          /\ Eof(routers, after)
          /\ Len(after.stack) = Len(main.stack)
          /\ Top(after).sel = exitNumber
          /\ Top(after).log = <<>>
          /\ CanExit(after)

\* C9: when the stream ends while a router is prompting and no line read
\* for that prompt was a selection, the router goes on as with the
\* selection 0: its Run returns and nothing is called.
C9_EndOfInput ==
  /\ AtRun(main, "prompt") => EndOfStreamIsExit
  /\ (AtRun(main, "selected") /\ Eof(routers, main)) =>
       /\ Top(main).sel = exitNumber
       /\ Top(main).log = <<>>
       /\ CanExit(main)
       /\ Len(Exited(main).stack) < Len(main.stack)

\* the stream ended behind a line that is no selection of a router with an
\* option, and getOptionNumber has given 0
C9_Witness ==
  /\ AtRun(main, "selected")
  /\ Eof(routers, main)
  /\ Top(main).sel = exitNumber
  /\ Count(Top(main).menu, IsDiagnostic) >= 1
  /\ routers[Top(main).r].options # <<>>

\* the routers rt with the printers ps, one for each, in place of theirs
WithPrinters(rt, ps) ==
  [c \in 1..Len(rt) |-> [rt[c] EXCEPT !.tablePrinter = ps[c]]]

\* the menu of a Run frame drawn by printer p
Repainted(menu, p) ==
  [j \in 1..Len(menu) |->
     IF menu[j].e = "table" THEN [menu[j] EXCEPT !.p = p] ELSE menu[j]]

\* the run w as it is when the routers have the printers ps: the menus are
\* drawn by these printers and nothing else differs
WithMenusOf(w, ps) ==
  [w EXCEPT !.stack =
     [i \in 1..Len(w.stack) |->
        IF w.stack[i].menu = <<>> THEN w.stack[i]
        ELSE [w.stack[i] EXCEPT
                !.menu = Repainted(w.stack[i].menu, ps[w.stack[i].r])]]]

\* the printers the routers may have instead of theirs
PrinterChoices == [1..Len(routers) -> Printers]

\* the step that takes the run w of the routers rt to w2, enabled or not in
\* the run wt of the routers rtt and taking it to w2t, the routers having
\* the printers ps: it is a step of that run too, and ends in the same run
\* but for the printer that drew the menus
SameStep(enabled, w2, w2t, ps) == enabled /\ w2t = WithMenusOf(w2, ps)

\* each step the run can take, it can take when the routers have other
\* printers, on the same lines of input and with the same conduct of the
\* middleware or the handler; getOptionNumber is a step of the router on
\* top alone, taken from a run that holds no menu
SameSteps ==
  CASE AtRun(main, "prompt") ->
         LET c == routers[Top(main).r]
         IN \A lines \in (IF Eof(routers, main) THEN {<<>>}
                          ELSE Scannable(c)) :
              LET after == Prompted(routers, main, lines)
              IN /\ CanRead(routers, main, lines)
                 /\ \A p \in Printers :
                      LET ct     == WithPrinterSet(c, p)
                          afterT == PromptedBy(ct, main, lines)
                      IN /\ CanReadBy(ct, main, lines)
                         /\ \A ps \in PrinterChoices :
                              ps[Top(main).r] = p =>
                                /\ WithPrinters(routers, ps)[Top(main).r] = ct
                                /\ WithMenusOf(main, ps) = main
                                /\ afterT = WithMenusOf(after, ps)
    [] CanExit(main) ->
         \A ps \in PrinterChoices :
           LET wt == WithMenusOf(main, ps)
           IN SameStep(CanExit(wt), Exited(main), Exited(wt), ps)
    [] CanDispatch(main) ->
         \A ps \in PrinterChoices :
           LET rtt == WithPrinters(routers, ps)
               wt  == WithMenusOf(main, ps)
           IN SameStep(CanDispatch(wt), Dispatched(routers, main),
                       Dispatched(rtt, wt), ps)
    [] CanLoop(main) ->
         \A ps \in PrinterChoices :
           LET rtt == WithPrinters(routers, ps)
               wt  == WithMenusOf(main, ps)
           IN SameStep(CanLoop(wt), Looped(routers, main), Looped(rtt, wt), ps)
    [] AtFn(main, "mw", "pre") ->
         \A ps \in PrinterChoices, callsNext \in BOOLEAN :
           LET rtt == WithPrinters(routers, ps)
               wt  == WithMenusOf(main, ps)
           IN CanEnter(main, callsNext) =>
                SameStep(CanEnter(wt, callsNext),
                         Entered(routers, main, callsNext),
                         Entered(rtt, wt, callsNext), ps)
    [] CanLeave(main) ->
         \A ps \in PrinterChoices :
           LET wt == WithMenusOf(main, ps)
           IN SameStep(CanLeave(wt), Left(main), Left(wt), ps)
    [] CanHandle(main) ->
         \A ps \in PrinterChoices, res \in {"nil", "err"} :
           LET wt == WithMenusOf(main, ps)
           IN SameStep(CanHandle(wt), Handled(main, res), Handled(wt, res), ps)

\* the run goes on as the run of the routers that differ in their printers
\* only, through the same calls and returns
RendererBlind == phase = "run" => SameSteps

\* the menu a Run shows when it has a selection was drawn once, by the
\* printer the router has, on the output of the router
PrinterCalled ==
  \A i \in RunFrames :
    main.stack[i].pc = "selected" =>
      LET tables == SelectSeq(main.stack[i].menu, LAMBDA ev : ev.e = "table")
          c      == routers[main.stack[i].r]
      IN /\ Len(tables) = 1
         /\ tables[1].p = c.tablePrinter
         /\ tables[1].dst = c.out

\* C10: routers that differ in their table printers only, run on the same
\* input, make the same calls of handlers and middleware in the same order
\* and return at the same point; the menu of each prompt is drawn by the
\* printer the router has.
C10_RendererOnly == RendererBlind /\ PrinterCalled

\* a router with a printer of its own has drawn its menu with it and the
\* handler of the option selected there has run
C10_Witness ==
  /\ AtRun(main, "returned")
  /\ routers[Top(main).r].tablePrinter = "dummyPrinter"
  /\ HandlerRan(Top(main).log)

\* the tables in the menu a Run frame holds
TablesOf(f) == SelectSeq(f.menu, LAMBDA ev : ev.e = "table")

\* the table a router r with the options `options` has to show: the header
\* with its title, a row for each option under its position counted from 1,
\* and a last row under 0, "Exit" for the root, which the constructor built,
\* "<-Back" for the others, which Group built
MenuAsSpecified(table, r, title, options) ==
  LET n == Len(options)
  IN /\ table.hdr = <<"#", title>>
     /\ Len(table.rows) = n + 1
     /\ \A i \in 1..n :
          /\ table.rows[i] = <<i, options[i].Name>>
          /\ table.rows[i][1] # exitNumber
     /\ table.rows[n + 1] = <<exitNumber, IF r = 1 THEN "Exit" ELSE "<-Back">>

\* C11: the menu of a router with n options, as the printer gets it, has
\* the header ["#", title] and n+1 rows: row i is (i, name of the i-th
\* option), the last row is (0, "Exit") for a router of the constructor and
\* (0, "<-Back") for a router of Group; no row of an option has the key 0.
C11_MenuRows ==
  \A i \in RunFrames :
    LET f == main.stack[i]
    IN f.pc = "selected" =>
         /\ Len(TablesOf(f)) = 1
         /\ MenuAsSpecified(TablesOf(f)[1], f.r, routers[f.r].name,
                            routers[f.r].options)

\* a group with two options has shown its menu
C11_Witness ==
  /\ AtRun(main, "selected")
  /\ Top(main).r > 1
  /\ Len(routers[Top(main).r].options) = 2
  /\ Len(TablesOf(Top(main))[1].rows) = 3

\* the router c without regard to its slice of options
ButOptions(c) == [c EXCEPT !.options = <<>>, !.optionsArr = "own"]

\* the step is a call c.Group(title, initial...): a router is added
GroupCalled == Len(routers') = Len(routers) + 1

\* what the call of Group does: one option named as the group is appended
\* to the options of one router, the parent, nothing else of any router
\* is set, and the new router is marked as a group and has the title and
\* the initial options
GroupEffect ==
  LET g == Len(routers')
  IN /\ \E c \in 1..Len(routers) :
          /\ Len(routers'[c].options) = Len(routers[c].options) + 1
          /\ SubSeq(routers'[c].options, 1, Len(routers[c].options))
               = routers[c].options
          /\ routers'[c].options[Len(routers'[c].options)].Name
               = routers'[g].name
          /\ \A d \in 1..Len(routers) :
               ButOptions(routers'[d]) = ButOptions(routers[d])
     /\ routers'[g].isGroup
     /\ routers'[g].name = Titles[g]
     /\ routers'[g].options \in {<<>>, <<NewOption(g, 1)>>}
     /\ routers'[g].middlewares = <<>>

\* the loop of a group works on the router as the calls on the handle that
\* Group returned have left it: the menu lists its options, a dispatch goes
\* through its global middlewares first
GroupLoopUsesHandle ==
  \A i \in RunFrames :
    LET f == main.stack[i]
        c == routers[f.r]
    IN f.r > 1 =>
         /\ f.pc = "selected" =>
              TablesOf(f)[1].rows
                = [k \in 1..Len(c.options) |-> <<k, c.options[k].Name>>]
                    \o <<<<exitNumber, "<-Back">>>>
         /\ (f.pc \in {"chain", "returned"} /\ CallsOf(f) # <<>>) =>
              CallsOf(f)[1] = FullChain(c, f.sel)[1]

\* C12: Group(title, initial...) appends one option named title at the end
\* of the options of the parent, leaves the earlier ones as they were, and
\* returns a router marked as a group with the initial options; options and
\* global middlewares added to the returned router later are used by its
\* loop when the group is entered.
C12_Group == [][(GroupCalled => GroupEffect) /\ GroupLoopUsesHandle']_vars

\* a group has dispatched an option through a global middleware added to it
\* after Group returned
C12_Witness ==
  /\ AtRun(main, "returned")
  /\ Top(main).r > 1
  /\ routers[Top(main).r].middlewares # <<>>
  /\ HandlerRan(Top(main).log)
  /\ CallsOf(Top(main))[1]
       = CallEv("pre", routers[Top(main).r].middlewares[1])

\* in the prompting state `main`, the line l is taken as a selection
TakenAsSelection(l) ==
  /\ CanRead(routers, main, <<l>>)
  /\ ~Eof(routers, Prompted(routers, main, <<l>>))

\* C13 as stated: a line is accepted as a selection exactly when the token
\* between its spaces is made of digits only and the number is in 0..n.
C13_Original ==
  (AtRun(main, "prompt") /\ ~Eof(routers, main)) =>
    LET n == Len(routers[Top(main).r].options)
    IN \A l \in Tokens :
         TakenAsSelection(l) <=>
           \E p \in UnsignedLines : p[1] = l /\ p[2] \in 0..n

\* C13: a line is accepted as a selection exactly when the token between
\* its spaces is a decimal integer, digits with or without a sign before
\* them, whose value v is in 0..n, and the selection is then v; an empty
\* line, a negative value, a value above n and a token with any other
\* character are refused.
C13_Parse ==
  (AtRun(main, "prompt") /\ ~Eof(routers, main)) =>
    LET n == Len(routers[Top(main).r].options)
    IN \A l \in Tokens :
         /\ TakenAsSelection(l) <=>
              \E p \in IntegerLines : p[1] = l /\ p[2] \in 0..n
         /\ \A p \in IntegerLines :
              (p[1] = l /\ p[2] \in 0..n) =>
                Top(Prompted(routers, main, <<l>>)).sel = p[2]

\* a router with one option has refused a line and taken the next as the
\* selection of that option
C13_Witness ==
  /\ AtRun(main, "selected")
  /\ Top(main).sel = 1
  /\ Len(routers[Top(main).r].options) = 1
  /\ Count(Top(main).menu, IsDiagnostic) = 1

\* ------------------------------------------------------------------- C14
\* the middlewares whose pre-logic a Run frame has logged in its dispatch
Entries(f) ==
  {f.log[j].f : j \in {j \in 1..Len(f.log) : f.log[j].e = "pre"}}

\* the Option variables of the caller that got a middleware after they
\* were registered as the option the Run frame f has dispatched
HeldOf(f) ==
  {h \in held : /\ h.r = f.r
                /\ h.k = f.sel
                /\ h.o.Name = routers[f.r].options[f.sel].Name
                /\ h.o.Handler = routers[f.r].options[f.sel].Handler}

\* C14 as stated: a local middleware appended with AddMiddlewares to an
\* Option after its registration and before Run is applied when the option
\* is dispatched: in a dispatch that has reached the handler, every
\* middleware of the caller's Option has been entered.
C14_Original ==
  \A i \in RunFrames :
    LET f == main.stack[i]
    IN (f.pc = "returned" /\ HandlerRan(f.log)) =>
         \A h \in HeldOf(f) :
           \A j \in 1..Len(h.o.middlewares) :
             h.o.middlewares[j] \in Entries(f)

\* ------------------------------------------------------------------- C15
\* the local middlewares of the options of router c other than option k
LocalsOfOthers(c, k) ==
  UNION {{c.options[b].middlewares[j] : j \in 1..Len(c.options[b].middlewares)}
           : b \in (1..Len(c.options)) \ {k}}

\* no local middleware of another option of the router has been entered
\* in the dispatch of the Run frame f
LocalsStayLocal(f) ==
  f.pc \in {"chain", "returned"} =>
    Entries(f) \cap LocalsOfOthers(routers[f.r], f.sel) = {}

\* a global middleware before the j-th of router c returned without calling
\* next in the dispatch of the Run frame f
CutBefore(f, c, j) ==
  \E b \in 1..(j - 1) :
    \E e \in 1..Len(f.log) : f.log[e] = CallEv("short", c.middlewares[b])

\* C15 as stated: when the chain of a dispatch has returned, each global
\* middleware of the router has run, and no local middleware of another
\* option of the router has run.
C15_Original ==
  \A i \in RunFrames :
    LET f == main.stack[i]
        c == routers[f.r]
    IN /\ f.pc = "returned" =>
            \A j \in 1..Len(c.middlewares) : c.middlewares[j] \in Entries(f)
       /\ LocalsStayLocal(f)

\* C15 (amended): when the chain of a dispatch has returned, each global
\* middleware of the router has run unless a global middleware registered
\* before it returned without calling next; the local middlewares of an
\* option run in the dispatches of that option only, never in the dispatch
\* of another option of the same router.
C15_Middlewares ==
  \A i \in RunFrames :
    LET f == main.stack[i]
        c == routers[f.r]
    IN /\ f.pc = "returned" =>
            \A j \in 1..Len(c.middlewares) :
              CutBefore(f, c, j) \/ c.middlewares[j] \in Entries(f)
       /\ LocalsStayLocal(f)

\* the second option of a router with a global middleware has been
\* dispatched down to its handler; the first option has local middlewares
C15_Witness ==
  \E i \in RunFrames :
    LET f == main.stack[i]
        c == routers[f.r]
    IN /\ f.pc = "returned"
       /\ f.sel = 2
       /\ HandlerRan(f.log)
       /\ c.middlewares # <<>>
       /\ c.options[1].middlewares # <<>>

\* ------------------------------------------------------------------- C16
\* the router to which the call of Group in this step was made: the one
\* that has an option more
GroupParent ==
  CHOOSE c \in 1..Len(routers) :
    Len(routers'[c].options) = Len(routers[c].options) + 1

\* the group takes the path display of its parent as it is at the call
PathShowTaken ==
  routers'[Len(routers')].pathShow = routers[GroupParent].pathShow

\* a call of PathShow on router c sets the path display of c and of no
\* other router
PathShowOwn ==
  \A c \in 1..Len(routers), enable \in BOOLEAN :
    PathShow(c, enable) =>
      /\ routers'[c].pathShow = enable
      /\ \A d \in 1..Len(routers) :
           d # c => routers'[d].pathShow = routers[d].pathShow

\* no call of main, a Setup with WithPath included, changes the path
\* display of two routers
PathShowOfOne ==
  \A c, d \in 1..Len(routers) :
    c # d => \/ routers'[c].pathShow = routers[c].pathShow
             \/ routers'[d].pathShow = routers[d].pathShow

\* a menu is headed by the path of its router if and only if the path
\* display of that router is on
PathShownByOwn ==
  \A i \in RunFrames :
    LET f == main.stack[i]
        c == routers[f.r]
    IN f.pc = "selected" =>
         (c.pathShow <=> /\ f.menu[1].e = "write"
                         /\ f.menu[1].txt = c.path \o <<"\n">>)

GroupsOf(c) ==
  {d \in 1..Len(routers) :
     \E k \in 1..Len(routers[c].options) :
       routers[c].options[k].Handler = Layer("group", NoFn, d, 0)}

\* C17 as stated: after SetTablePrinter(p) on a router, the router and all
\* its groups, those created before the call included, have the printer p
\* (and draw their menus with it: PrinterCalled).
C17_Original ==
  [][\A c \in 1..Len(routers), p \in Printers :
       SetTablePrinter(c, p) =>
         \A d \in {c} \cup GroupsOf(c) : routers'[d].tablePrinter = p]_vars

\* ------------------------------------------------------------------- C18
\* the group has the printer its parent has at the call of Group
PrinterTaken ==
  routers'[Len(routers')].tablePrinter = routers[GroupParent].tablePrinter

\* a call of SetTablePrinter on router c leaves the printer of every other
\* router, that of the parent of c among them, as it was
PrinterSetOwn ==
  \A c \in 1..Len(routers), p \in Printers :
    SetTablePrinter(c, p) =>
      /\ routers'[c].tablePrinter = p
      /\ \A d \in 1..Len(routers) :
           d # c => routers'[d].tablePrinter = routers[d].tablePrinter

\* C18: a group is created with the printer its parent has at the call of
\* Group and draws its menus with it until it is given another; giving
\* the group another printer leaves the printer of the parent unchanged.
C18_Renderer ==
  [][/\ GroupCalled => PrinterTaken
     /\ PrinterSetOwn
     /\ PrinterCalled']_vars

\* a group that was given dummyPrinter has drawn its menu with it, and the
\* router it was created from still has DefaultPrinter
C18_Witness ==
  \E i \in RunFrames :
    LET f == main.stack[i]
    IN /\ f.r \in GroupsOf(1)
       /\ f.pc = "selected"
       /\ TablesOf(f)[1].p = "dummyPrinter"
       /\ routers[1].tablePrinter = "DefaultPrinter"

\* ------------------------------------------------------------------- C19
\* C19 as stated: an append to the options of one router, by AddOptions or
\* by Group, leaves the options of every other router, in content and in
\* length, as they were, the routers built from the same slice of the
\* caller included.
C19_Original ==
  [][\A c \in 1..Len(routers) :
       (AddOptions(c) \/ \E init \in {"none", "own", "shared"} : Group(c, init))
         => \A d \in 1..Len(routers) :
              d # c => routers'[d].options = routers[d].options]_vars

\* ------------------------------------------------------------------- C20
RECURSIVE Flatten(_)
Flatten(seqs) ==
  IF seqs = <<>> THEN <<>> ELSE Head(seqs) \o Flatten(Tail(seqs))

\* the last of the settings that makes the call t, 0 if none does
LastOf(settings, t) ==
  LET at == {i \in 1..Len(settings) : settings[i].t = t}
  IN IF at = {} THEN 0 ELSE CHOOSE i \in at : \A j \in at : j <= i

\* what the settings have to make of the router `before`: the options and
\* the middlewares they hold are behind those it has, in the order of the
\* settings; the printer, the path display and the streams are those of
\* the last setting that sets them, if there is one; nothing else differs
SettingsEffect(before, after, settings) ==
  LET n  == Len(settings)
      lp == LastOf(settings, "WithTablePrinter")
      ls == LastOf(settings, "WithPath")
      li == LastOf(settings, "WithInputOutput")
  IN /\ after.options =
          before.options \o Flatten([i \in 1..n |-> settings[i].options])
     /\ after.middlewares =
          before.middlewares
            \o Flatten([i \in 1..n |-> settings[i].middlewares])
     /\ after.tablePrinter =
          IF lp = 0 THEN before.tablePrinter ELSE settings[lp].printer
     /\ after.pathShow = IF ls = 0 THEN before.pathShow ELSE settings[ls].enable
     /\ after.in = IF li = 0 THEN before.in ELSE settings[li].in
     /\ after.out = IF li = 0 THEN before.out ELSE settings[li].out
     /\ after.name = before.name
     /\ after.isGroup = before.isGroup
     /\ after.path = before.path

\* C20: the settings passed to Setup or to NewCmdRouterWithSettings take
\* effect in the order given: whatever settings main passes to a router it
\* has built, or to a new one, the options and the global middlewares of
\* the router are then those it had followed by all the added ones in the
\* order of the call, and the printer, the path display and the streams
\* are those the last setting of each kind gave.
C20_SettingsInOrder ==
  /\ \A c \in 1..Len(routers), plan \in Plans :
       LET settings == Built(routers[c], c, plan)
       IN SettingsEffect(routers[c],
                         ApplySettings(routers, c, settings)[c], settings)
  /\ Len(routers) = 1 =>
       \A plan \in Plans :
         LET new      == NewCmdRouter(Titles[1], Slice(<<>>, "own"))
             settings == Built(new, 1, plan)
         IN SettingsEffect(new,
                           NewCmdRouterWithSettings(Titles[1], settings),
                           settings)

\* settings have given the root two global middlewares, in the order of
\* the settings, and another printer
C20_Witness ==
  /\ phase = "setup"
  /\ routers[1].middlewares = <<Fn("g", 1, 0, 1), Fn("g", 1, 0, 2)>>
  /\ routers[1].tablePrinter = "dummyPrinter"

\* the Run frames of a router without options
EmptyRuns == {i \in RunFrames : routers[main.stack[i].r].options = <<>>}

\* C21: a router without options shows a table with one row, the sentinel
\* under key 0; of the lines it may read it takes "0" only, and answers each
\* of the others with a diagnostic and a new prompt; its Run selects nothing
\* but 0 and never enters a chain.
C21_EmptyRouter ==
  \A i \in EmptyRuns :
    LET f == main.stack[i]
        c == routers[f.r]
    IN /\ f.pc \in {"prompt", "selected"}
       /\ f.sel = exitNumber
       /\ f.pc = "selected" =>
            /\ Len(TablesOf(f)) = 1
            /\ Len(TablesOf(f)[1].rows) = 1
            /\ TablesOf(f)[1].rows[1][1] = 0
            /\ Count(f.menu, IsDiagnostic) = Count(f.menu, IsPrompt) - 1
       /\ \A l \in Tokens :
            LET got == getOptionNumber(c, <<l>>)
            IN IF l = <<"0">>
               THEN /\ ~got.eof
                    /\ got.option = 0
                    /\ Count(got.out, IsDiagnostic) = 0
               ELSE /\ got.eof
                    /\ got.scanned = 1
                    /\ Count(got.out, IsDiagnostic) = 1
                    /\ Count(got.out, IsPrompt) = 2

\* the Run of a router without options has refused a line and then taken 0
\* from its input
C21_Witness ==
  \E i \in EmptyRuns :
    /\ main.stack[i].pc = "selected"
    /\ Count(main.stack[i].menu, IsDiagnostic) >= 1
    /\ ~Eof(routers, main)

\* the Run on top of the stack is the Run of a group
InGroupRun(w) ==
  /\ w.stack # <<>>
  /\ Top(w).fn = "Run"
  /\ Len(w.stack) > 1

\* C22: when the Run of a group returns, the closure that called it returns
\* nil to the chain of the parent that dispatched it: the function of that
\* chain which resumes, resumes with nil. A dispatch of the group that
\* returned an error changes nothing outside the Run of the group, which
\* goes on to prompt.
C22_GroupReturnsNil ==
  [][ /\ (CanExit(main) /\ InGroupRun(main) /\ phase' = "run") =>
           LET g == Len(main.stack) - 1
           IN /\ main.stack[g].fn = "group"
              /\ Len(main'.stack) < g
              /\ Top(main').fn \in {"mw", "Run"}
              /\ Top(main').pc = "returned"
              /\ Top(main').res = "nil"
      /\ (CanLoop(main) /\ InGroupRun(main) /\ Top(main).res = "err") =>
           /\ Len(main'.stack) = Len(main.stack)
           /\ \A i \in 1..(Len(main.stack) - 1) :
                main'.stack[i] = main.stack[i]
           /\ Top(main').pc = "prompt"
    ]_vars

\* the closure of a group has returned nil to the chain of its parent
C22_Witness ==
  /\ main.stack # <<>>
  /\ Top(main).pc = "returned"
  /\ Top(main).res = "nil"
  /\ \E ev \in {main.stack[RunIdx(main.stack)].log[i] :
                  i \in 1..Len(main.stack[RunIdx(main.stack)].log)} :
       ev.e = "handler" /\ ev.f.kind = "group"

\* the text and the tables a Run frame has written itself: its menu, and
\* the empty lines about a dispatch
Emitted(f) ==
  f.menu \o SelectSeq(f.log, LAMBDA ev : ev.e = "write" /\ ev.txt = <<"\n">>)

\* C24: whatever a router writes while it runs (the path, the table, the
\* empty line after the table, the prompt, the diagnostics, the empty lines
\* about a dispatch) goes to the out of that router.
C24_Original ==
  \A i \in RunFrames :
    \A n \in 1..Len(Emitted(main.stack[i])) :
      Emitted(main.stack[i])[n].dst = routers[main.stack[i].r].out

\* the places of the empty lines in the log of a Run frame
BlankAt(f) ==
  {n \in 1..Len(f.log) : f.log[n] = Blank(routers[f.r].out)}

\* C25: in every dispatch, Run writes one empty line before it calls the
\* chain, so that it precedes every call of the dispatch, and one when the
\* chain has returned, nil or an error, behind every call of the dispatch;
\* with the second one written Run prompts again.
C25_BlankLines ==
  \A i \in RunFrames :
    LET f == main.stack[i]
    IN /\ f.pc = "selected" => f.log = <<>>
       /\ f.pc \in {"chain", "returned"} => BlankAt(f) = {1}
       /\ (f.pc = "prompt" /\ f.log # <<>>) =>
            /\ BlankAt(f) = {1, Len(f.log)}
            /\ Len(f.log) >= 2
       /\ \A n \in 1..Len(f.log) :
            (f.log[n].e = "write" /\ f.log[n].txt = <<"\n">>) =>
              n \in BlankAt(f)

\* a chain has returned an error of a middleware and Run has written the
\* second empty line
C25_Witness ==
  \E i \in RunFrames :
    LET f == main.stack[i]
    IN /\ f.pc = "prompt"
       /\ Len(f.log) >= 4
       /\ BlankAt(f) = {1, Len(f.log)}
       /\ \E n \in 1..Len(f.log) : f.log[n].e = "short"

\* the middlewares a dispatch of option k of router c is wrapped in
ChainOf(c, k) == c.middlewares \o c.options[k].middlewares

\* the Run frame next above Run frame i, or 0
ChildOf(i) ==
  IF \E j \in RunFrames : j > i
  THEN CHOOSE j \in RunFrames :
         j > i /\ \A n \in RunFrames : n > i => n >= j
  ELSE 0

\* a new group has no middleware, whatever its parent has
GroupBare == routers'[Len(routers')].middlewares = <<>>

\* no call of main changes the middlewares of two routers
MiddlewaresOfOne ==
  \A c, d \in 1..Len(routers) :
    c # d => \/ routers'[c].middlewares = routers[c].middlewares
             \/ routers'[d].middlewares = routers[d].middlewares

\* every middleware called in a dispatch of a router is one of that router
\* or of the option dispatched, and is entered no more often than it is
\* registered there
ChainOwn ==
  \A i \in RunFrames :
    LET f     == main.stack[i]
        chain == ChainOf(routers[f.r], f.sel)
    IN f.pc \in {"chain", "returned"} =>
         \A n \in 1..Len(f.log) :
           f.log[n].e \in {"pre", "post", "short"} =>
             /\ \E m \in 1..Len(chain) : chain[m] = f.log[n].f
             /\ Cardinality({m \in 1..Len(f.log) :
                               /\ f.log[m].e = f.log[n].e
                               /\ f.log[m].f = f.log[n].f})
                  <= Cardinality({m \in 1..Len(chain) :
                                    chain[m] = f.log[n].f})

\* while the Run of a group is on the stack, the dispatch that entered it
\* has made the calls into the middlewares of the parent and of the option
\* of the group, each once, and the call of the closure, and nothing else:
\* no middleware of the parent is entered or left by what the group does
Enclosing ==
  \A i \in RunFrames :
    ChildOf(i) # 0 =>
      LET f == main.stack[i]
          c == routers[f.r]
      IN /\ f.pc = "chain"
         /\ CallsOf(f) =
              Calls("pre", ChainOf(c, f.sel))
                \o <<CallEv("handler", HandlerFn(c.options[f.sel]))>>

\* once the Run of the group has returned and the chain with it, the
\* middlewares have been left, each once, in the reverse order
Enclosed ==
  \A i \in RunFrames :
    LET f == main.stack[i]
        c == routers[f.r]
    IN (f.pc = "returned" /\ \E n \in 1..Len(f.log) :
                               /\ f.log[n].e = "handler"
                               /\ f.log[n].f.kind = "group") =>
         CallsOf(f) = FullChain(c, f.sel)

\* C30: a group does not take the global middlewares of its parent: Group
\* creates it without any, later registrations on one router leave the
\* other routers as they are, and a dispatch inside the group calls only
\* the group's own global middlewares and the local ones of the option. The
\* parent's global middlewares are entered once when the group is
\* dispatched and left once when its Run has returned, with all dispatches
\* of the group between the two.
C30_NotInherited ==
  [][/\ GroupCalled => GroupBare
     /\ MiddlewaresOfOne
     /\ ChainOwn'
     /\ Enclosing'
     /\ Enclosed']_vars

\* inside a group entered through a global middleware of its parent, a
\* dispatch has reached its handler and returned, and the parent's
\* middleware has not been left
C30_Witness ==
  \E i \in RunFrames :
    /\ ChildOf(i) # 0
    /\ routers[main.stack[i].r].middlewares # <<>>
    /\ routers[main.stack[ChildOf(i)].r].middlewares = <<>>
    /\ main.stack[ChildOf(i)].pc = "returned"
    /\ HandlerRan(main.stack[ChildOf(i)].log)

\* the step is a panic of the function on top of the stack
PanicRaised ==
  \/ HandlerPanic
  \/ MiddlewarePanicBefore
  \/ MiddlewarePanicAfter

\* the closures of DefaultRecoverMiddleware on the stack that have called
\* next
Recovering == {n \in 1..Len(main.stack) : Recovers(main.stack[n])}

\* the topmost of them
Nearest == CHOOSE n \in Recovering : \A m \in Recovering : m <= n

\* a panic raised above a closure of DefaultRecoverMiddleware ends there:
\* the closure returns an error to its caller, as if the chain had
\* returned it, the Run that dispatched through it is still running, and
\* when the callers have returned in their turn it prompts again
PanicBecomesError ==
  (PanicRaised /\ Recovering # {}) =>
    LET run == RunIdx(SubSeq(main.stack, 1, Nearest))
        u   == Unwind(main')
    IN /\ phase' = "run"
       /\ Len(main'.stack) < Nearest
       /\ Len(main'.stack) >= run
       /\ \A i \in 1..(run - 1) : main'.stack[i] = main.stack[i]
       /\ Top(main').fn \in {"mw", "Run"}
       /\ Top(main').pc = "returned"
       /\ Top(main').res = "err"
       /\ Len(u.stack) = run
       /\ Top(u).fn = "Run"
       /\ Top(u).r = main.stack[run].r
       /\ Top(u).pc = "prompt"

\* when next returns to a closure of DefaultRecoverMiddleware, the closure
\* returns what next returned
RecoverHandsOn ==
  (MiddlewareLeave /\ Top(main).f = DefaultRecoverMiddleware) =>
    /\ Len(main'.stack) < Len(main.stack)
    /\ Top(main').pc = "returned"
    /\ Top(main').res = Top(main).res

\* C23: with DefaultRecoverMiddleware among the global middlewares of a
\* router, a panic of a function the middleware has called into (a global
\* middleware registered after it, a local middleware, the handler,
\* whatever these call) is turned into an error the middleware returns; the
\* Run of the router goes on and prompts again. When nothing panics, the
\* middleware returns the result of the handler it wraps as it is.
C23_Recover == [][PanicBecomesError /\ RecoverHandsOn]_vars

\* a panic of a handler has been recovered from: the chain has returned an
\* error to Run
C23_Witness ==
  /\ AtRun(main, "returned")
  /\ Top(main).res = "err"
  /\ \E n \in 1..Len(Top(main).log) : Top(main).log[n].e = "recover"
  /\ \E n \in 1..Len(Top(main).log) : Top(main).log[n].e = "handler"

\* root.Run has taken the selection 0 from its input, or has returned
Terminating ==
  \/ phase = "done"
  \/ /\ Len(main.stack) = 1
     /\ AtRun(main, "selected")
     /\ Top(main).sel = exitNumber

\* C27 as stated: no line of the input is lost between one prompt and the
\* next: up to the selection that ends root.Run, the lines the calls of
\* getOptionNumber have scanned, of whatever router, are the lines that
\* were read from the stream, none left out.
C27_Original == input.lost > 0 => Terminating

\* getOptionNumber is in its loop with a scanner that has kept an error
Faulted ==
  /\ main.stack # <<>>
  /\ Top(main).fn = "Run"
  /\ Top(main).pc \in {"fault", "scan"}

\* C28 as stated: after a failed Read the prompting loop does not go on for
\* ever: getOptionNumber comes to return a selection, one it has read or
\* the 0 of the end of the stream.
C28_Original == Faulted ~> (AtRun(main, "selected") \/ phase = "done")

\* C29: with a stream that ends, no Read of which fails, and handlers and
\* middlewares that return, root.Run returns; and from the moment a
\* getOptionNumber has met the end of the stream, nothing is dispatched and
\* nothing is called: the Runs on the stack return one after the other.
C29_Terminates ==
  /\ (phase = "run") ~> (phase = "done" \/ Faulted)
  /\ [][input.eofAt > 0 =>
          /\ ~RunDispatch
          /\ Len(main'.stack) <= Len(main.stack)]_vars

\* root.Run has returned after the stream ended at the prompt of a group,
\* every line of it scanned
C29_Witness ==
  /\ phase = "done"
  /\ input.eofAt >= 2
  /\ input.lost = 0

\* every row of the table printed has as many cells as there are headers
Rectangular ==
  \A r \in 1..Len(printed.rows) :
    Len(printed.rows[r]) = Len(printed.headers)

\* the greatest number of characters of the header and the cells of column j
ColumnWidth(j) ==
  LET lengths ==
        {Len(printed.headers[j])}
          \cup {Len(Sprint(printed.rows[r][j])) : r \in 1..Len(printed.rows)}
  IN CHOOSE m \in lengths : \A n \in lengths : n <= m

\* where column j begins in a line: each column takes its width and three
\* characters more
RECURSIVE ColumnStart(_)
ColumnStart(j) ==
  IF j = 1 THEN 1 ELSE ColumnStart(j - 1) + ColumnWidth(j - 1) + 3

\* the part of a line that belongs to column j
ColumnOf(line, j) == SubSeq(line, ColumnStart(j), ColumnStart(j + 1) - 1)

\* the line is a border: for each column "+" and hyphens, and a last "+"
IsBorder(line) ==
  /\ Len(line) = ColumnStart(Len(printed.headers) + 1)
  /\ line[Len(line)] = "+"
  /\ \A j \in 1..Len(printed.headers) :
       /\ ColumnOf(line, j)[1] = "+"
       /\ \A n \in 2..(ColumnWidth(j) + 3) : ColumnOf(line, j)[n] = "-"

\* the line shows the texts: for each column "| ", the text, spaces up to
\* the width of the column and one more, and a last "|"
IsRowOf(line, texts) ==
  /\ Len(line) = ColumnStart(Len(printed.headers) + 1)
  /\ line[Len(line)] = "|"
  /\ \A j \in 1..Len(printed.headers) :
       LET part == ColumnOf(line, j)
       IN /\ part[1] = "|"
          /\ part[2] = " "
          /\ SubSeq(part, 3, 2 + Len(texts[j])) = texts[j]
          /\ \A n \in (3 + Len(texts[j]))..(ColumnWidth(j) + 3) :
               part[n] = " "

\* C26: for headers, one at least, and rows of as many cells as there are
\* headers, DefaultPrinter writes len(rows) + 4 lines: a border, the
\* headers, a border, the rows in their order, a border; each column is as
\* wide as the longest of its header and its cells, counted in characters,
\* each text is padded with spaces to that width, and all lines have the
\* same length.  Without headers nothing is written.
C26_DefaultPrinter ==
  printed.state = "returned" =>
    /\ printed.headers = <<>> =>
         printed.lines = <<>> /\ ~printed.panicked
    /\ (printed.headers # <<>> /\ Rectangular) =>
         LET lines == printed.lines
             n     == Len(printed.rows)
         IN /\ ~printed.panicked
            /\ Len(lines) = n + 4
            /\ IsBorder(lines[1])
            /\ IsRowOf(lines[2], printed.headers)
            /\ IsBorder(lines[3])
            /\ \A r \in 1..n :
                 IsRowOf(lines[3 + r],
                         [j \in 1..Len(printed.headers) |->
                            Sprint(printed.rows[r][j])])
            /\ IsBorder(lines[n + 4])
            /\ \A a, b \in 1..Len(lines) : Len(lines[a]) = Len(lines[b])

\* a table of two columns and one row has been printed; the header of the
\* first column is one character of two bytes and its cell is longer
C26_Witness ==
  /\ printed.state = "returned"
  /\ printed.headers = <<<<"e-acute">>, <<"a", "b", "c">>>>
  /\ printed.rows = <<<<IntCell(10), StringCell(<<"e-acute", "e-acute">>)>>>>
  /\ Len(printed.lines) = 5
  /\ Len(printed.lines[1]) = 12

\* in the dispatch of a Run frame every middleware of the chain is entered,
\* and is left, no more often than it stands in the chain, and a dispatch
\* that reached the handler and returned has made the calls of the chain,
\* each once
OncePerDispatch ==
  \A i \in RunFrames :
    LET f     == main.stack[i]
        c     == routers[f.r]
        chain == ChainOf(c, f.sel)
        times(e, m) == Cardinality({n \in 1..Len(f.log) :
                                      f.log[n] = CallEv(e, m)})
        stands(m) == Cardinality({n \in 1..Len(chain) : chain[n] = m})
    IN f.pc \in {"chain", "returned"} =>
         /\ \A n \in 1..Len(chain) :
              /\ times("pre", chain[n]) <= stands(chain[n])
              /\ times("post", chain[n]) <= stands(chain[n])
         /\ Len(HandlersRun(f)) <= 1
         /\ (f.pc = "returned" /\ HandlerRan(f.log)) =>
              CallsOf(f) = FullChain(c, f.sel)

\* C31: no step of Run changes a router: its options with their
\* middlewares, its global middlewares, its title, its path and its flags
\* are after the step what they were before; and however often an option
\* has been dispatched before, a dispatch of it enters and leaves each of
\* its wrappers once.
C31_FreshChain ==
  [][phase = "run" => (routers' = routers /\ held' = held /\ OncePerDispatch')
    ]_vars

\* the second dispatch of an option with a global and two local middlewares
\* has returned from its handler
C31_Witness ==
  /\ Len(input.dispatched) >= 2
  /\ input.dispatched[1] = input.dispatched[2]
  /\ AtRun(main, "returned")
  /\ HandlerRan(Top(main).log)
  /\ Len(CallsOf(Top(main))) = 7

\* ------------------------------------------------------------------- C32
\* the router whose option leads to router d, a group
ParentOf(d) ==
  CHOOSE c \in 1..Len(routers) :
    \E k \in 1..Len(routers[c].options) :
      routers[c].options[k].Handler = Layer("group", NoFn, d, 0)

\* the routers from the root down to router d, d included
RECURSIVE ChainTo(_)
ChainTo(d) ==
  IF routers[d].isGroup THEN Append(ChainTo(ParentOf(d)), d) ELSE <<d>>

\* the path of every router is one segment "> ", title, " " for each router
\* from the root down to itself, root first: with Level the number of
\* routers above it, Level + 1 segments
PathOfChain ==
  \A d \in 1..Len(routers) :
    LET chain == ChainTo(d)
        Level == Len(chain) - 1
    IN /\ chain[1] = 1
       /\ routers[d].path =
            Flatten([n \in 1..Len(chain) |->
                       <<"> ", routers[chain[n]].name, " ">>])
       /\ Len(routers[d].path) = 3 * (Level + 1)

\* the group has the path of its parent, as it is at the call, followed by
\* the segment of its own title
PathTaken ==
  LET g == Len(routers')
  IN routers'[g].path
       = routers[GroupParent].path \o <<"> ", routers'[g].name, " ">>

\* no call changes the path of a router there is
PathsFixed ==
  \A d \in 1..Len(routers) : routers'[d].path = routers[d].path

StreamsTaken ==
  LET g == Len(routers')
  IN /\ routers'[g].in = routers[GroupParent].in
     /\ routers'[g].out = routers[GroupParent].out

\* a call of SetInputOutput on router c sets the reader and the writer of c
\* and leaves those of every other router, its groups among them, as they
\* were
StreamsSetOwn ==
  \A c \in 1..Len(routers), io \in Streams :
    SetInputOutput(c, io) =>
      /\ <<routers'[c].in, routers'[c].out>> = io
      /\ \A d \in 1..Len(routers) :
           d # c => /\ routers'[d].in = routers[d].in
                    /\ routers'[d].out = routers[d].out

\* no call of main, a Setup with WithInputOutput included, changes the
\* reader or the writer of two routers
StreamsOfOne ==
  \A c, d \in 1..Len(routers) :
    c # d => \/ <<routers'[c].in, routers'[c].out>>
                  = <<routers[c].in, routers[c].out>>
             \/ <<routers'[d].in, routers'[d].out>>
                  = <<routers[d].in, routers[d].out>>

\* what a Run has written through the writer of its router (the table, the
\* prompts, the diagnostics and the empty lines about a dispatch) is on the
\* writer that router has
WritesOnOwn ==
  \A i \in RunFrames :
    LET f == main.stack[i]
        c == routers[f.r]
    IN /\ \A n \in 1..Len(f.menu) :
            (f.menu[n].e = "table" \/ IsPrompt(f.menu[n])
               \/ IsDiagnostic(f.menu[n])) => f.menu[n].dst = c.out
       /\ \A n \in 1..Len(f.log) :
            (f.log[n].e = "write" /\ f.log[n].txt = <<"\n">>)
              => f.log[n].dst = c.out

\* a reader is found at its end by a getOptionNumber of a router that has
\* it, and by no other step
ReadsOnOwn ==
  main'.ended # main.ended =>
    /\ AtRun(main, "prompt")
    /\ main'.ended = main.ended \cup {routers[Top(main).r].in}

\* C33: a group is created with the reader and the writer its parent has at
\* the call of Group; SetInputOutput or WithInputOutput on the parent
\* afterwards changes those of the parent alone, and the group, when it is
\* entered, reads from the reader and writes the table, the prompts, the
\* diagnostics and the empty lines about a dispatch to the writer it was
\* created with.
C33_StreamSnapshot ==
  [][/\ GroupCalled => StreamsTaken
     /\ StreamsSetOwn
     /\ StreamsOfOne
     /\ WritesOnOwn'
     /\ ReadsOnOwn]_vars

\* the root was given a reader and a buffer after its group was created and
\* has written its menu to the buffer; the group, entered, has written its
\* table and its prompt to os.Stdout and found os.Stdin at its end, the
\* reader of the root not being at its end
C33_Witness ==
  \E i, j \in RunFrames :
    LET p == main.stack[i]
        g == main.stack[j]
    IN /\ i < j
       /\ p.r = 1
       /\ g.r \in GroupsOf(1)
       /\ routers[p.r].out = "buffer"
       /\ routers[g.r].out = "os.Stdout"
       /\ g.pc = "selected"
       /\ TablesOf(g)[1].dst = "os.Stdout"
       /\ \E n \in 1..Len(g.menu) :
            IsPrompt(g.menu[n]) /\ g.menu[n].dst = "os.Stdout"
       /\ main.ended = {"os.Stdin"}

====
